---- MODULE Spec2Model ----
(***************************************************************************)
(* Model of the NFL transactions scraper (src/transactions.py): the date   *)
(* window generator, the cursor page walker, the row filter, the player    *)
(* position lookup and the command line driver.                            *)
(*                                                                         *)
(* Text that the code inspects character by character (the date cell, the  *)
(* names a key is built from) is a sequence of one-character strings; the  *)
(* empty sequence is the empty string.  A date is a record                 *)
(* [year, month, day].  A call that may raise returns a record with a      *)
(* field ok; ok = FALSE carries the exception's name in exc.               *)
(***************************************************************************)
EXTENDS Integers, Sequences, FiniteSets, TLC

VARIABLES
    call,   \* function-level specifications: the arguments of the call
    ret,    \* function-level specifications: <<>> while pending, then <<result>>
            \* (in SpecKey: the log of the calls made)
    pc,               \* main: "start", "launch", "walk", "save", "done"
    args,             \* --start-date and --end-date as given (None: not given)
    today,            \* datetime.now().date()
    start_date,       \* main's start_date (NoDate until set)
    end_date,         \* main's end_date
    date_ranges,      \* main's list of (year, month) windows
    widx,             \* place in date_ranges of the window being walked
    browser,          \* the global browser handle: "none", "open", "closed"
    page_number,      \* the walker's page_number
    after_token,      \* the walker's after_token (None or Some(text))
    transactions,     \* the walker's list of records for its window
    dom,              \* what the shared page holds after its last goto
    all_transactions, \* main's list of records
    excel,            \* None, or Some(rows) once handed to DataFrame.to_excel
    outcome,          \* how main ended: "running", "saved", or the error logged
    exit_status,      \* None while running, Some(status) once the process ended
    enrich_log,       \* history: the position lookups made, in order
    win_log,          \* history: one entry per window walked, in order
    rows_served,      \* history: number of table rows the site has served
    run_pc,           \* main.py main: "start", "scrape_teams", "scrape", "save",
                      \* "close", "done"
    espn_browser,     \* main.py's browser: "none", "open", "closed"
    teams,            \* main.py main's list of teams
    team_no,          \* place in teams of the team being processed
    step_no,          \* the step of that team that runs next (1 .. 4)
    saved_files,      \* the files save_team_data has written
    fatal,            \* main.py main printed "Fatal error"
    browser_closes,   \* history: number of browser.close() calls
    events            \* history: what main.py main did, in order

fnvars == <<call, ret>>

mainvars ==
    <<pc, args, today, start_date, end_date, date_ranges, widx, browser,
      page_number, after_token, transactions, dom, all_transactions, excel,
      outcome, exit_status, enrich_log, win_log, rows_served>>

teamvars ==
    <<run_pc, espn_browser, teams, team_no, step_no, saved_files, fatal,
      browser_closes, events>>

vars == <<fnvars, mainvars, teamvars>>

-----------------------------------------------------------------------------
(* Bounds of the model *)

\* first calendar year of the dates the model draws
FirstYear == 2023
\* number of consecutive calendar years the model draws dates from
NumYears == 2

\* datetime.MAXYEAR: the largest year a date holds
MAXYEAR == 9999

ModelYears == FirstYear .. (FirstYear + NumYears - 1)

-----------------------------------------------------------------------------
(* datetime.date *)

Date(y, m, d) == [year |-> y, month |-> m, day |-> d]

IsLeap(y) == (y % 4 = 0 /\ y % 100 # 0) \/ y % 400 = 0

DaysInMonth(y, m) ==
    IF m = 2 THEN (IF IsLeap(y) THEN 29 ELSE 28)
    ELSE IF m \in {4, 6, 9, 11} THEN 30 ELSE 31

\* what the date constructor accepts; anything else raises ValueError
ValidDate(y, m, d) ==
    /\ y \in 1 .. MAXYEAR
    /\ m \in 1 .. 12
    /\ d >= 1
    /\ d <= DaysInMonth(y, m)

\* a < b on dates
DateLT(a, b) ==
    \/ a.year < b.year
    \/ a.year = b.year /\ a.month < b.month
    \/ a.year = b.year /\ a.month = b.month /\ a.day < b.day

\* a <= b on dates
DateLE(a, b) == a = b \/ DateLT(a, b)

\* a < b on (year, month) tuples, the order sorted() puts them in
PairLT(a, b) == a[1] < b[1] \/ (a[1] = b[1] /\ a[2] < b[2])

RECURSIVE SortedPairs(_)
\* sorted(S) for a set of (year, month) tuples
SortedPairs(S) ==
    IF S = {} THEN <<>>
    ELSE LET lo == CHOOSE p \in S : \A q \in S : q = p \/ PairLT(p, q)
         IN  <<lo>> \o SortedPairs(S \ {lo})

Ok(v) == [ok |-> TRUE, val |-> v]

Raise(e) == [ok |-> FALSE, exc |-> e]

-----------------------------------------------------------------------------
(* generate_date_ranges *)

RECURSIVE GenLoop(_, _, _)
\* the while loop: current runs from start_date in steps of one month, each
\* step to the first day of the next month; date.replace raises ValueError
\* past MAXYEAR
GenLoop(current, end_d, ranges) ==
    IF DateLE(current, end_d)
    THEN LET added == ranges \cup {<<current.year, current.month>>}
         IN  IF current.month = 12
             THEN IF current.year + 1 > MAXYEAR
                  THEN Raise("ValueError")
                  ELSE GenLoop(Date(current.year + 1, 1, 1), end_d, added)
             ELSE GenLoop(Date(current.year, current.month + 1, 1), end_d, added)
    ELSE Ok(SortedPairs(ranges))

\* a generator that tests the bound after the first step (do-while)
GenerateDoWhile(start_d, end_d) ==
    GenLoop(IF start_d.month = 12 THEN Date(start_d.year + 1, 1, 1)
            ELSE Date(start_d.year, start_d.month + 1, 1),
            end_d, {<<start_d.year, start_d.month>>})

generate_date_ranges(start_d, end_d) == GenLoop(start_d, end_d, {})

-----------------------------------------------------------------------------
(* str: strip, split, int, lower, replace; re.match of the date pattern *)

DigitSeq == <<"0", "1", "2", "3", "4", "5", "6", "7", "8", "9">>

Digits == {DigitSeq[i] : i \in 1 .. 10}

DigitVal(c) == (CHOOSE i \in 1 .. 10 : DigitSeq[i] = c) - 1

IsSpace(c) == c \in {" ", "\t", "\n"}

RECURSIVE LStrip(_)
LStrip(s) == IF s # <<>> /\ IsSpace(Head(s)) THEN LStrip(Tail(s)) ELSE s

RECURSIVE RStrip(_)
RStrip(s) ==
    IF s # <<>> /\ IsSpace(s[Len(s)]) THEN RStrip(SubSeq(s, 1, Len(s) - 1))
    ELSE s

\* str.strip()
Strip(s) == RStrip(LStrip(s))

\* re.match(r"\d{1,2}/\d{1,2}", s): the pattern matches a prefix of s, whatever
\* follows it
ReMatchDate(s) ==
    \E i \in {1, 2} :
        /\ Len(s) >= i + 2
        /\ \A k \in 1 .. i : s[k] \in Digits
        /\ s[i + 1] = "/"
        /\ s[i + 2] \in Digits

RECURSIVE SplitFrom(_, _, _)
\* the pieces of s between occurrences of sep, cur being the piece in progress
SplitFrom(s, sep, cur) ==
    IF s = <<>> THEN <<cur>>
    ELSE IF Head(s) = sep THEN <<cur>> \o SplitFrom(Tail(s), sep, <<>>)
    ELSE SplitFrom(Tail(s), sep, Append(cur, Head(s)))

\* str.split(sep) for a one-character separator
Split(s, sep) == SplitFrom(s, sep, <<>>)

RECURSIVE DigitsValue(_, _)
DigitsValue(s, acc) ==
    IF s = <<>> THEN acc
    ELSE IF Head(s) = "_" THEN DigitsValue(Tail(s), acc)
    ELSE DigitsValue(Tail(s), acc * 10 + DigitVal(Head(s)))

\* int(s) for a str: surrounding whitespace is ignored, the rest is decimal
\* digits, single underscores allowed between digits, leading zeros allowed;
\* anything else raises ValueError.  (A sign is accepted by int too; the texts
\* of the model hold none.)
PyInt(s) ==
    LET t == Strip(s)
    IN  IF /\ t # <<>>
           /\ \A k \in 1 .. Len(t) : t[k] \in Digits \cup {"_"}
           /\ t[1] \in Digits
           /\ t[Len(t)] \in Digits
           /\ \A k \in 1 .. (Len(t) - 1) : ~(t[k] = "_" /\ t[k + 1] = "_")
        THEN Ok(DigitsValue(t, 0))
        ELSE Raise("ValueError")

UpperSeq == <<"A", "B", "C", "D", "J", "Q", "S", "T", "W">>

LowerSeq == <<"a", "b", "c", "d", "j", "q", "s", "t", "w">>

\* str.lower() on one character (the letters the model's names use)
LowerChar(c) ==
    IF \E i \in 1 .. Len(UpperSeq) : UpperSeq[i] = c
    THEN LowerSeq[CHOOSE i \in 1 .. Len(UpperSeq) : UpperSeq[i] = c]
    ELSE c

Lower(s) == [i \in 1 .. Len(s) |-> LowerChar(s[i])]

RECURSIVE ReplaceChar(_, _, _)
\* str.replace(old, new) for a one-character old; new is a text, maybe empty
ReplaceChar(s, old, new) ==
    IF s = <<>> THEN <<>>
    ELSE (IF Head(s) = old THEN new ELSE <<Head(s)>>)
         \o ReplaceChar(Tail(s), old, new)

\* "%02d" and "%04d" of a number
Pad2(n) == DigitSeq[((n \div 10) % 10) + 1] \o DigitSeq[(n % 10) + 1]

Pad4(n) == Pad2(n \div 100) \o Pad2(n % 100)

\* date.strftime("%Y-%m-%d")
StrfTime(d) == Pad4(d.year) \o "-" \o Pad2(d.month) \o "-" \o Pad2(d.day)

-----------------------------------------------------------------------------
(* The page as the code reads it.  An optional value (an element that     *)
(* query_selector may not find, an attribute that may be None) is <<>>    *)
(* when absent and <<v>> when present.                                    *)

None == <<>>

Some(v) == <<v>>

\* cell.inner_text().strip() if cell else ""
CellText(cell) == IF cell = None THEN <<>> ELSE Strip(cell[1])

-----------------------------------------------------------------------------
(* get_player_position *)

\* what the profile page does when asked: new_page() raises, goto() times out,
\* goto() or the extraction raises another error, or the page loads and the
\* position element is there (with its text) or not
EnrichOutcomes ==
    { [kind |-> "new_page_error"], [kind |-> "timeout"], [kind |-> "error"],
      [kind |-> "loaded", element |-> None],
      [kind |-> "loaded", element |-> Some(<<" ", "Q", "B", " ">>)] }

\* a lookup that tries a second time when the first attempt fails
PositionRetrying(player_url, browser_open, out) ==
    IF ~browser_open
    THEN [ok |-> TRUE, position |-> <<>>, opened |-> 0, closed |-> 0]
    ELSE IF out.kind = "new_page_error"
    THEN [ok |-> TRUE, position |-> <<>>, opened |-> 0, closed |-> 0]
    ELSE IF out.kind \in {"timeout", "error"}
    THEN [ok |-> TRUE, position |-> <<>>, opened |-> 2, closed |-> 2]
    ELSE [ok |-> TRUE, position |-> CellText(out.element),
          opened |-> 1, closed |-> 1]

\* a lookup whose timeout handler returns without closing the page
PositionLeavesPageOpen(player_url, browser_open, out) ==
    IF ~browser_open
    THEN [ok |-> TRUE, position |-> <<>>, opened |-> 0, closed |-> 0]
    ELSE IF out.kind = "new_page_error"
    THEN [ok |-> TRUE, position |-> <<>>, opened |-> 0, closed |-> 0]
    ELSE IF out.kind = "timeout"
    THEN [ok |-> TRUE, position |-> <<>>, opened |-> 1, closed |-> 0]
    ELSE IF out.kind = "error"
    THEN [ok |-> TRUE, position |-> <<>>, opened |-> 1, closed |-> 1]
    ELSE [ok |-> TRUE, position |-> CellText(out.element),
          opened |-> 1, closed |-> 1]

\* a lookup that lets a goto failure escape to its caller
PositionPropagating(player_url, browser_open, out) ==
    IF ~browser_open
    THEN [ok |-> TRUE, position |-> <<>>, opened |-> 0, closed |-> 0]
    ELSE IF out.kind = "new_page_error"
    THEN [ok |-> TRUE, position |-> <<>>, opened |-> 0, closed |-> 0]
    ELSE IF out.kind \in {"timeout", "error"}
    THEN [ok |-> FALSE, position |-> <<>>, opened |-> 1, closed |-> 1]
    ELSE [ok |-> TRUE, position |-> CellText(out.element),
          opened |-> 1, closed |-> 1]

\* the position text returned, and the pages the call opened and closed; ok is
\* FALSE when the call raises instead of returning
get_player_position(player_url, browser_open, out) ==
    IF ~browser_open
    THEN [ok |-> TRUE, position |-> <<>>, opened |-> 0, closed |-> 0]
    ELSE IF out.kind = "new_page_error"
    THEN [ok |-> TRUE, position |-> <<>>, opened |-> 0, closed |-> 0]
    ELSE IF out.kind \in {"timeout", "error"}
    THEN [ok |-> TRUE, position |-> <<>>, opened |-> 1, closed |-> 1]
    ELSE [ok |-> TRUE, position |-> CellText(out.element),
          opened |-> 1, closed |-> 1]

-----------------------------------------------------------------------------
(* process_transaction_rows *)

\* a key that numbers the calls made before it
PlayerKeyCounting(player_name, to_team_fullname) ==
    ReplaceChar(
        ReplaceChar(Lower(player_name \o <<"_">> \o to_team_fullname),
                    " ", <<"_">>),
        ".", <<>>) \o (IF ret = <<>> THEN <<>> ELSE <<DigitSeq[Len(ret) + 1]>>)

\* the key of a record: "<player>_<to team>" lower-cased, spaces to
\* underscores, periods removed
PlayerKey(player_name, to_team_fullname) ==
    ReplaceChar(
        ReplaceChar(Lower(player_name \o <<"_">> \o to_team_fullname),
                    " ", <<"_">>),
        ".", <<>>)

\* what one row gives: the records appended (none or one), the position
\* lookups made (none or one), and how the row ended
RowResult(recs, calls, how) == [recs |-> recs, calls |-> calls, how |-> how]

\* the loop body with the position looked up whether or not the row has a
\* reference
BuildRecordAlwaysLooksUp(row, trans_date, browser_open, out) ==
    LET player_name ==
            IF row.player_link = None
            THEN (IF row.player_cell = None
                  THEN <<"U", "n", "k", "n", "o", "w", "n", " ",
                         "P", "l", "a", "y", "e", "r">>
                  ELSE Strip(row.player_cell[1]))
            ELSE Strip(row.player_link[1].text)
        player_url == "https://www.nfl.com"
        got == get_player_position(player_url, browser_open, out)
        transaction_data ==
            [from_team_fullname |-> CellText(row.from_fullname),
             to_team_fullname |-> CellText(row.to_fullname),
             date |-> StrfTime(trans_date),
             player |-> player_name,
             position |-> got.position,
             transaction |-> CellText(row.transaction_cell),
             player_key |-> PlayerKey(player_name, CellText(row.to_fullname))]
    IN  RowResult(<<transaction_data>>,
                  <<[url |-> player_url, kind |-> out.kind,
                     position |-> got.position, opened |-> got.opened,
                     closed |-> got.closed]>>,
                  "added")

\* the part of the loop body after the date test: extract the fields, look
\* the position up, build the record
BuildRecord(row, trans_date, browser_open, out) ==
    LET from_team_fullname == CellText(row.from_fullname)
        to_team_fullname == CellText(row.to_fullname)
        player_name ==
            IF row.player_link = None
            THEN (IF row.player_cell = None
                  THEN <<"U", "n", "k", "n", "o", "w", "n", " ",
                         "P", "l", "a", "y", "e", "r">>
                  ELSE Strip(row.player_cell[1]))
            ELSE Strip(row.player_link[1].text)
        player_href ==
            IF row.player_link = None THEN None ELSE row.player_link[1].href
        fetches == player_href # None /\ player_href[1] # ""
        player_url == IF fetches THEN "https://www.nfl.com" \o player_href[1]
                      ELSE ""
        got == get_player_position(player_url, browser_open, out)
        position == IF fetches THEN got.position ELSE <<>>
        transaction_data ==
            [from_team_fullname |-> from_team_fullname,
             to_team_fullname |-> to_team_fullname,
             date |-> StrfTime(trans_date),
             player |-> player_name,
             position |-> position,
             transaction |-> CellText(row.transaction_cell),
             player_key |-> PlayerKey(player_name, to_team_fullname)]
        made == IF fetches
                THEN <<[url |-> player_url, kind |-> out.kind,
                        position |-> got.position, opened |-> got.opened,
                        closed |-> got.closed]>>
                ELSE <<>>
    IN  IF fetches /\ ~got.ok
        THEN RowResult(<<>>, made, "row_error")
        ELSE RowResult(<<transaction_data>>, made, "added")

\* the date test with the upper bound exclusive
ProcessRowExclusiveEnd(row, row_year, start_d, end_d, browser_open, out) ==
    LET date_text == CellText(row.date_cell)
    IN  IF date_text = <<>> \/ ~ReMatchDate(date_text)
        THEN RowResult(<<>>, <<>>, "bad_format")
        ELSE LET parts == Split(date_text, "/")
             IN  IF Len(parts) # 2
                 THEN RowResult(<<>>, <<>>, "row_error")
                 ELSE LET month_num == PyInt(parts[1])
                          day == PyInt(parts[2])
                      IN  IF ~month_num.ok \/ ~day.ok
                          THEN RowResult(<<>>, <<>>, "row_error")
                          ELSE IF ~ValidDate(row_year, month_num.val, day.val)
                          THEN RowResult(<<>>, <<>>, "bad_date")
                          ELSE LET trans_date ==
                                       Date(row_year, month_num.val, day.val)
                               IN  IF ~(DateLE(start_d, trans_date)
                                        /\ DateLT(trans_date, end_d))
                                   THEN RowResult(<<>>, <<>>, "out_of_range")
                                   ELSE BuildRecord(row, trans_date,
                                                    browser_open, out)

\* one turn of the for loop.  bad_format and bad_date are logged as warnings,
\* out_of_range at debug level; row_error is an exception caught by the loop's
\* own handler (the unpacking of a split that gave other than two pieces, an
\* int() that raised), logged as an error.  In each case the loop goes on.
ProcessRow(row, row_year, start_d, end_d, browser_open, out) ==
    LET date_text == CellText(row.date_cell)
    IN  IF date_text = <<>> \/ ~ReMatchDate(date_text)
        THEN RowResult(<<>>, <<>>, "bad_format")
        ELSE LET parts == Split(date_text, "/")
             IN  IF Len(parts) # 2
                 THEN RowResult(<<>>, <<>>, "row_error")
                 ELSE LET month_num == PyInt(parts[1])
                          day == PyInt(parts[2])
                      IN  IF ~month_num.ok \/ ~day.ok
                          THEN RowResult(<<>>, <<>>, "row_error")
                          ELSE IF ~ValidDate(row_year, month_num.val, day.val)
                          THEN RowResult(<<>>, <<>>, "bad_date")
                          ELSE LET trans_date ==
                                       Date(row_year, month_num.val, day.val)
                               IN  IF ~(DateLE(start_d, trans_date)
                                        /\ DateLE(trans_date, end_d))
                                   THEN RowResult(<<>>, <<>>, "out_of_range")
                                   ELSE BuildRecord(row, trans_date,
                                                    browser_open, out)

RECURSIVE ProcessFrom(_, _, _, _, _, _, _, _)
\* the for loop from row i on; acc holds the records and lookups so far.  A
\* lookup remembers the place (owner) its row's record takes in the result.
ProcessFrom(rows, i, row_year, start_d, end_d, browser_open, outs, acc) ==
    IF i > Len(rows) THEN acc
    ELSE LET r == ProcessRow(rows[i], row_year, start_d, end_d,
                             browser_open, outs[i])
             owned == [k \in 1 .. Len(r.calls) |->
                          [url |-> r.calls[k].url,
                           kind |-> r.calls[k].kind,
                           position |-> r.calls[k].position,
                           opened |-> r.calls[k].opened,
                           closed |-> r.calls[k].closed,
                           owner |-> Len(acc.transactions) + 1]]
         IN  ProcessFrom(rows, i + 1, row_year, start_d, end_d, browser_open,
                         outs,
                         [transactions |-> acc.transactions \o r.recs,
                          calls |-> acc.calls \o owned,
                          hows |-> Append(acc.hows, r.how)])

\* the rows dated with the year of start_date, whatever year the caller gives
ProcessRowsStartYear(rows, row_year, start_d, end_d, browser_open, outs) ==
    ProcessFrom(rows, 1, start_d.year, start_d, end_d, browser_open, outs,
                [transactions |-> <<>>, calls |-> <<>>, hows |-> <<>>])

\* rows is the page's rows, each paired by the caller with the window's year
process_transaction_rows(rows, row_year, start_d, end_d, browser_open, outs) ==
    ProcessFrom(rows, 1, row_year, start_d, end_d, browser_open, outs,
                [transactions |-> <<>>, calls |-> <<>>, hows |-> <<>>])

-----------------------------------------------------------------------------
(* The command line driver (main) and the page walker                     *)
(* (fetch_and_process_transactions).  The browser launch, the output      *)
(* directory and the spreadsheet writer are taken to succeed.             *)

\* most page fetches the model follows within one window
MaxPages == 3
\* most table rows on one page
MaxPageRows == 2
\* most table rows the site serves during one run
MaxRows == 3

NoDate == Date(0, 0, 0)

RECURSIVE Str(_)
\* str(n) of a number n >= 0
Str(n) == IF n < 10 THEN DigitSeq[n + 1]
          ELSE Str(n \div 10) \o DigitSeq[(n % 10) + 1]

RECURSIVE Join(_)
\* the text a sequence of pieces spells
Join(pieces) == IF pieces = <<>> THEN "" ELSE Head(pieces) \o Join(Tail(pieces))

\* datetime.strptime(text, "%Y-%m-%d").date(): the argument is the sequence of
\* numbers its text spells between dashes (none for the empty string); text
\* that does not spell year, month and day of a date raises ValueError
Strptime(fields) ==
    IF Len(fields) = 3 /\ ValidDate(fields[1], fields[2], fields[3])
    THEN Ok(Date(fields[1], fields[2], fields[3]))
    ELSE Raise("ValueError")

BaseUrl(year, month) ==
    "https://www.nfl.com/transactions/league/signings/"
        \o Str(year) \o "/" \o Str(month)

\* a non-empty token is true, None and "" are false
Truthy(token) == token # None /\ token[1] # ""

\* url = f"{base_url}?after={after_token}" if after_token else base_url
WalkUrl(year, month, token) ==
    IF Truthy(token) THEN BaseUrl(year, month) \o "?after=" \o token[1]
    ELSE BaseUrl(year, month)

\* An href is a sequence of pieces of text, the piece "after=" standing for
\* each occurrence of that text in it.
HasAfter(href) == \E i \in 1 .. Len(href) : href[i] = "after="

LastAfter(href) ==
    CHOOSE i \in 1 .. Len(href) :
        href[i] = "after=" /\ \A j \in (i + 1) .. Len(href) : href[j] # "after="

\* a token rule that keeps the cursor it has when the link offers none
NextTokenKeepsCursor(href_attr) ==
    IF href_attr # None /\ href_attr[1] # <<>> /\ HasAfter(href_attr[1])
    THEN Some(Join(SubSeq(href_attr[1], LastAfter(href_attr[1]) + 1,
                          Len(href_attr[1]))))
    ELSE after_token

\* href.split("after=")[-1] if href and "after=" in href else None
NextToken(href_attr) ==
    IF href_attr # None /\ href_attr[1] # <<>> /\ HasAfter(href_attr[1])
    THEN Some(Join(SubSeq(href_attr[1], LastAfter(href_attr[1]) + 1,
                          Len(href_attr[1]))))
    ELSE None

BlankPage == [status |-> "blank", url |-> "", nrows |-> 0, next_link |-> None]

\* the state before main.py's main runs
TeamsNotRun ==
    /\ run_pc = "start"
    /\ espn_browser = "none"
    /\ teams = <<>>
    /\ team_no = 0
    /\ step_no = 0
    /\ saved_files = {}
    /\ fatal = FALSE
    /\ browser_closes = 0
    /\ events = <<>>

\* the state before main runs, and throughout the function-level specifications
MainNotRun ==
    /\ pc = "start"
    /\ args = [start_date |-> None, end_date |-> None]
    /\ today = Date(2024, 1, 5)
    /\ start_date = NoDate
    /\ end_date = NoDate
    /\ date_ranges = <<>>
    /\ widx = 0
    /\ browser = "none"
    /\ page_number = 1
    /\ after_token = None
    /\ transactions = <<>>
    /\ dom = BlankPage
    /\ all_transactions = <<>>
    /\ excel = None
    /\ outcome = "running"
    /\ exit_status = None
    /\ enrich_log = <<>>
    /\ win_log = <<>>
    /\ rows_served = 0

\* main returns (after logging what went wrong, if anything); the interpreter
\* then ends the process with status 0
Finish(how) ==
    /\ pc' = "done"
    /\ outcome' = how
    /\ exit_status' = Some(0)

\* the entry of win_log for a window about to be walked
NewWindow(w) ==
    [year |-> w[1], month |-> w[2], fetches |-> 0, state |-> "walking",
     pages |-> <<>>, returned |-> 0]

\* the truth value of a command line argument: None (not given) and the empty
\* string are false
Given(arg) == arg # None /\ arg[1] # <<>>

\* lines 241-268 with the start_date > end_date test left out
ParseArgsUnchecked ==
    /\ pc = "start"
    /\ IF Given(args.start_date) /\ Given(args.end_date)
       THEN LET s == Strptime(args.start_date[1])
                e == Strptime(args.end_date[1])
            IN  IF ~s.ok \/ ~e.ok
                THEN /\ Finish("invalid_date")
                     /\ UNCHANGED <<start_date, end_date, date_ranges>>
                ELSE LET g == generate_date_ranges(s.val, e.val)
                     IN  /\ start_date' = s.val
                         /\ end_date' = e.val
                         /\ IF g.ok
                            THEN /\ date_ranges' = g.val
                                 /\ pc' = "launch"
                                 /\ UNCHANGED <<outcome, exit_status>>
                            ELSE /\ Finish("invalid_date")
                                 /\ UNCHANGED date_ranges
       ELSE IF Given(args.start_date) \/ Given(args.end_date)
       THEN /\ Finish("missing_arg")
            /\ UNCHANGED <<start_date, end_date, date_ranges>>
       ELSE /\ start_date' = today
            /\ end_date' = today
            /\ date_ranges' = <<<<today.year, today.month>>>>
            /\ pc' = "launch"
            /\ UNCHANGED <<outcome, exit_status>>
    /\ UNCHANGED <<fnvars, teamvars, args, today, widx, browser, page_number,
                   after_token, transactions, dom, all_transactions, excel,
                   enrich_log, win_log, rows_served>>

\* lines 241-268 with a date given alone completed by today's date
ParseArgsLenient ==
    /\ pc = "start"
    /\ IF Given(args.start_date) /\ Given(args.end_date)
       THEN LET s == Strptime(args.start_date[1])
                e == Strptime(args.end_date[1])
            IN  IF ~s.ok \/ ~e.ok
                THEN /\ Finish("invalid_date")
                     /\ UNCHANGED <<start_date, end_date, date_ranges>>
                ELSE IF DateLT(e.val, s.val)
                THEN /\ start_date' = s.val
                     /\ end_date' = e.val
                     /\ Finish("inverted")
                     /\ UNCHANGED date_ranges
                ELSE LET g == generate_date_ranges(s.val, e.val)
                     IN  /\ start_date' = s.val
                         /\ end_date' = e.val
                         /\ IF g.ok
                            THEN /\ date_ranges' = g.val
                                 /\ pc' = "launch"
                                 /\ UNCHANGED <<outcome, exit_status>>
                            ELSE /\ Finish("invalid_date")
                                 /\ UNCHANGED date_ranges
       ELSE /\ start_date' = today
            /\ end_date' = today
            /\ date_ranges' = <<<<today.year, today.month>>>>
            /\ pc' = "launch"
            /\ UNCHANGED <<outcome, exit_status>>
    /\ UNCHANGED <<fnvars, teamvars, args, today, widx, browser, page_number,
                   after_token, transactions, dom, all_transactions, excel,
                   enrich_log, win_log, rows_served>>

\* main, lines 241-268: read the two dates, or default to today
ParseArgs ==
    /\ pc = "start"
    /\ IF Given(args.start_date) /\ Given(args.end_date)
       THEN LET s == Strptime(args.start_date[1])
                e == Strptime(args.end_date[1])
            IN  IF ~s.ok \/ ~e.ok
                THEN /\ Finish("invalid_date")
                     /\ UNCHANGED <<start_date, end_date, date_ranges>>
                ELSE IF DateLT(e.val, s.val)
                THEN /\ start_date' = s.val
                     /\ end_date' = e.val
                     /\ Finish("inverted")
                     /\ UNCHANGED date_ranges
                ELSE LET g == generate_date_ranges(s.val, e.val)
                     IN  /\ start_date' = s.val
                         /\ end_date' = e.val
                         /\ IF g.ok
                            THEN /\ date_ranges' = g.val
                                 /\ pc' = "launch"
                                 /\ UNCHANGED <<outcome, exit_status>>
                            ELSE /\ Finish("invalid_date")
                                 /\ UNCHANGED date_ranges
       ELSE IF Given(args.start_date) \/ Given(args.end_date)
       THEN /\ Finish("missing_arg")
            /\ UNCHANGED <<start_date, end_date, date_ranges>>
       ELSE /\ start_date' = today
            /\ end_date' = today
            /\ date_ranges' = <<<<today.year, today.month>>>>
            /\ pc' = "launch"
            /\ UNCHANGED <<outcome, exit_status>>
    /\ UNCHANGED <<fnvars, teamvars, args, today, widx, browser, page_number,
                   after_token, transactions, dom, all_transactions, excel,
                   enrich_log, win_log, rows_served>>

\* main, lines 270-276: launch the browser, open the shared page, enter the
\* loop over date_ranges (the first call of fetch_and_process_transactions
\* sets its locals)
Launch ==
    /\ pc = "launch"
    /\ browser' = "open"
    /\ IF date_ranges = <<>>
       THEN /\ pc' = "save"
            /\ UNCHANGED <<widx, win_log>>
       ELSE /\ pc' = "walk"
            /\ widx' = 1
            /\ win_log' = <<NewWindow(date_ranges[1])>>
    /\ page_number' = 1
    /\ after_token' = None
    /\ transactions' = <<>>
    /\ UNCHANGED <<fnvars, teamvars, args, today, start_date, end_date, date_ranges, dom,
                   all_transactions, excel, outcome, exit_status, enrich_log,
                   rows_served>>

\* the next-page link of a page: its href attribute missing, without a token,
\* with the token "a" or "b", or with an empty token
Links ==
    { [href |-> None], [href |-> Some(<<"/t">>)],
      [href |-> Some(<<"/t?", "after=", "a">>)],
      [href |-> Some(<<"/t?", "after=", "b">>)],
      [href |-> Some(<<"/t?", "after=">>)] }

\* the window being walked
Window == date_ranges[widx]

\* a return whose records main puts in front of those it holds
ReturnFromWindowPrepends(result, how, page_info) ==
    /\ all_transactions' = result \o all_transactions
    /\ widx' = widx + 1
    /\ pc' = IF widx < Len(date_ranges) THEN "walk" ELSE "save"
    /\ page_number' = 1
    /\ after_token' = None
    /\ transactions' = <<>>
    /\ LET closed == [win_log[widx] EXCEPT
                          !.fetches = @ + 1, !.state = how,
                          !.pages = @ \o page_info,
                          !.returned = Len(result)]
           others == [win_log EXCEPT ![widx] = closed]
       IN  win_log' = IF widx < Len(date_ranges)
                      THEN Append(others, NewWindow(date_ranges[widx + 1]))
                      ELSE others

\* a return of which main keeps only the records it does not hold yet
ReturnFromWindowDedups(result, how, page_info) ==
    /\ all_transactions' =
           all_transactions
               \o SelectSeq(result,
                            LAMBDA r : \A i \in 1 .. Len(all_transactions) :
                                          all_transactions[i] # r)
    /\ widx' = widx + 1
    /\ pc' = IF widx < Len(date_ranges) THEN "walk" ELSE "save"
    /\ page_number' = 1
    /\ after_token' = None
    /\ transactions' = <<>>
    /\ LET closed == [win_log[widx] EXCEPT
                          !.fetches = @ + 1, !.state = how,
                          !.pages = @ \o page_info,
                          !.returned = Len(result)]
           others == [win_log EXCEPT ![widx] = closed]
       IN  win_log' = IF widx < Len(date_ranges)
                      THEN Append(others, NewWindow(date_ranges[widx + 1]))
                      ELSE others

\* fetch_and_process_transactions returns `result` and main extends
\* all_transactions with it, then calls it for the next window (its locals
\* start afresh) or leaves the loop
ReturnFromWindow(result, how, page_info) ==
    /\ all_transactions' = all_transactions \o result
    /\ widx' = widx + 1
    /\ pc' = IF widx < Len(date_ranges) THEN "walk" ELSE "save"
    /\ page_number' = 1
    /\ after_token' = None
    /\ transactions' = <<>>
    /\ LET closed == [win_log[widx] EXCEPT
                          !.fetches = @ + 1, !.state = how,
                          !.pages = @ \o page_info,
                          !.returned = Len(result)]
           others == [win_log EXCEPT ![widx] = closed]
       IN  win_log' = IF widx < Len(date_ranges)
                      THEN Append(others, NewWindow(date_ranges[widx + 1]))
                      ELSE others

\* the loop goes round again
NextPage(token, page_info) ==
    /\ after_token' = token
    /\ page_number' = page_number + 1
    /\ win_log' = [win_log EXCEPT ![widx].fetches = @ + 1,
                                  ![widx].pages = @ \o page_info]
    /\ UNCHANGED <<pc, widx, all_transactions>>

CanFetch ==
    /\ pc = "walk"
    /\ page_number <= MaxPages

DateTextsOf(rows) == [i \in 1 .. Len(rows) |-> CellText(rows[i].date_cell)]

PageInfo(rows, res) ==
    <<[texts |-> DateTextsOf(rows), got |-> Len(res.transactions)]>>

\* the lookups of a page, owner counted in the run's whole result, win the
\* place in date_ranges of the window whose page the row was on
Lookups(res) ==
    [k \in 1 .. Len(res.calls) |->
        [url |-> res.calls[k].url,
         kind |-> res.calls[k].kind,
         position |-> res.calls[k].position,
         opened |-> res.calls[k].opened,
         closed |-> res.calls[k].closed,
         owner |-> res.calls[k].owner + Len(all_transactions)
                       + Len(transactions),
         win |-> widx]]

\* a failed fetch that throws the window's records away
FetchFailedDropsRows(kind) ==
    /\ CanFetch
    /\ dom' = [status |-> kind, url |-> WalkUrl(Window[1], Window[2], after_token),
               nrows |-> 0, next_link |-> None]
    /\ ReturnFromWindow(<<>>, "failed_" \o kind, <<>>)
    /\ UNCHANGED <<fnvars, teamvars, args, today, start_date, end_date, date_ranges,
                   browser, excel, outcome, exit_status, enrich_log,
                   rows_served>>

\* page.goto raises: TimeoutError (kind "timeout") or another error ("error");
\* either handler logs it and breaks out of the loop
FetchFailed(kind) ==
    /\ CanFetch
    /\ dom' = [status |-> kind, url |-> WalkUrl(Window[1], Window[2], after_token),
               nrows |-> 0, next_link |-> None]
    /\ ReturnFromWindow(transactions, "failed_" \o kind, <<>>)
    /\ UNCHANGED <<fnvars, teamvars, args, today, start_date, end_date, date_ranges,
                   browser, excel, outcome, exit_status, enrich_log,
                   rows_served>>

\* an empty page after which the loop goes round again
FetchedEmptyGoesOn ==
    /\ CanFetch
    /\ dom' = [status |-> "loaded",
               url |-> WalkUrl(Window[1], Window[2], after_token),
               nrows |-> 0, next_link |-> None]
    /\ NextPage(None, <<[texts |-> <<>>, got |-> 0]>>)
    /\ UNCHANGED <<fnvars, teamvars, args, today, start_date, end_date, date_ranges,
                   browser, transactions, excel, outcome, exit_status,
                   enrich_log, rows_served>>

\* an empty page that throws the window's records away
FetchedEmptyDropsRows ==
    /\ CanFetch
    /\ dom' = [status |-> "loaded",
               url |-> WalkUrl(Window[1], Window[2], after_token),
               nrows |-> 0, next_link |-> None]
    /\ ReturnFromWindow(<<>>, "exhausted_empty",
                        <<[texts |-> <<>>, got |-> 0]>>)
    /\ UNCHANGED <<fnvars, teamvars, args, today, start_date, end_date, date_ranges,
                   browser, excel, outcome, exit_status, enrich_log,
                   rows_served>>

\* the page loads with no table rows: a warning, and the loop is left
FetchedEmpty ==
    /\ CanFetch
    /\ dom' = [status |-> "loaded",
               url |-> WalkUrl(Window[1], Window[2], after_token),
               nrows |-> 0, next_link |-> None]
    /\ ReturnFromWindow(transactions, "exhausted_empty",
                        <<[texts |-> <<>>, got |-> 0]>>)
    /\ UNCHANGED <<fnvars, teamvars, args, today, start_date, end_date, date_ranges,
                   browser, excel, outcome, exit_status, enrich_log,
                   rows_served>>

\* a last page whose rows are processed and then left out of the result
FetchedLastPageDropsRows(rows, outs) ==
    /\ CanFetch
    /\ Len(rows) <= MaxRows - rows_served
    /\ LET res == process_transaction_rows(rows, Window[1], start_date,
                                           end_date, browser = "open", outs)
       IN  /\ ReturnFromWindow(transactions, "exhausted_no_next",
                               PageInfo(rows, res))
           /\ enrich_log' = enrich_log \o Lookups(res)
    /\ dom' = [status |-> "loaded",
               url |-> WalkUrl(Window[1], Window[2], after_token),
               nrows |-> Len(rows), next_link |-> None]
    /\ rows_served' = rows_served + Len(rows)
    /\ UNCHANGED <<fnvars, teamvars, args, today, start_date, end_date, date_ranges,
                   browser, excel, outcome, exit_status>>

\* the page loads with rows and no next-page link: the rows are processed and
\* the loop is left
FetchedLastPage(rows, outs) ==
    /\ CanFetch
    /\ Len(rows) <= MaxRows - rows_served
    /\ LET res == process_transaction_rows(rows, Window[1], start_date,
                                           end_date, browser = "open", outs)
       IN  /\ ReturnFromWindow(transactions \o res.transactions,
                               "exhausted_no_next", PageInfo(rows, res))
           /\ enrich_log' = enrich_log \o Lookups(res)
    /\ dom' = [status |-> "loaded",
               url |-> WalkUrl(Window[1], Window[2], after_token),
               nrows |-> Len(rows), next_link |-> None]
    /\ rows_served' = rows_served + Len(rows)
    /\ UNCHANGED <<fnvars, teamvars, args, today, start_date, end_date, date_ranges,
                   browser, excel, outcome, exit_status>>

\* the page loads with rows and a next-page link: the rows are processed, the
\* token is taken from the link's href, and the loop goes round again
FetchedPage(rows, outs) ==
    /\ CanFetch
    /\ Len(rows) <= MaxRows - rows_served
    /\ LET res == process_transaction_rows(rows, Window[1], start_date,
                                           end_date, browser = "open", outs)
           info == PageInfo(rows, res)
           url == WalkUrl(Window[1], Window[2], after_token)
       IN  /\ transactions' = transactions \o res.transactions
           /\ enrich_log' = enrich_log \o Lookups(res)
           /\ \E link \in Links :
                  /\ NextPage(NextToken(link.href), info)
                  /\ dom' = [status |-> "loaded", url |-> url,
                             nrows |-> Len(rows), next_link |-> Some(link)]
    /\ rows_served' = rows_served + Len(rows)
    /\ UNCHANGED <<fnvars, teamvars, args, today, start_date, end_date, date_ranges,
                   browser, excel, outcome, exit_status>>

\* main, lines 281-286: hand the records to the spreadsheet writer, close the
\* browser, return
Save ==
    /\ pc = "save"
    /\ excel' = Some(all_transactions)
    /\ browser' = "closed"
    /\ Finish("saved")
    /\ UNCHANGED <<fnvars, teamvars, args, today, start_date, end_date, date_ranges,
                   widx, page_number, after_token, transactions, dom,
                   all_transactions, enrich_log, win_log, rows_served>>

-----------------------------------------------------------------------------
(* Specification Spec: one run of main against a site that answers each    *)
(* fetch as it likes                                                       *)

\* a table row with every cell present and a linked player
DateRow(text) ==
    [date_cell |-> Some(text),
     from_fullname |-> Some(<<"W">>),
     to_fullname |-> Some(<<"D">>),
     player_link |-> Some([text |-> <<"J", ".", " ", "D">>,
                           href |-> Some("/players/j-d/")]),
     player_cell |-> Some(<<"J", ".", " ", "D">>),
     transaction_cell |-> Some(<<"S">>)]

PipelineRows ==
    { DateRow(<<"1", "2", "/", "2", "0">>), DateRow(<<"1", "/", "3">>) }

PageRows ==
    UNION {[1 .. n -> PipelineRows] : n \in 1 .. MaxPageRows}

PipelineEnrich ==
    {o \in EnrichOutcomes :
        o.kind \in {"timeout", "error"}
        \/ (o.kind = "loaded" /\ o.element # None)}

DefaultOut == [kind |-> "timeout"]

\* the row is one the code looks the position up for
LooksUp(row, year) ==
    ProcessRow(row, year, start_date, end_date, TRUE, DefaultOut).calls # <<>>

RECURSIVE OutsFrom(_, _, _)
OutsFrom(rows, year, i) ==
    IF i > Len(rows) THEN {<<>>}
    ELSE LET here == IF LooksUp(rows[i], year) THEN PipelineEnrich
                     ELSE {DefaultOut}
         IN  {<<o>> \o rest : o \in here, rest \in OutsFrom(rows, year, i + 1)}

\* one answer of the profile site per row that is looked up
OutsFor(rows, year) == OutsFrom(rows, year, 1)

\* the pages the site may still serve
PagesLeft == {rows \in PageRows : Len(rows) <= MaxRows - rows_served}

ArgChoices ==
    { [start_date |-> Some(<<2023, 12, 15>>), end_date |-> Some(<<2024, 1, 5>>)],
      [start_date |-> Some(<<2024, 1, 3>>), end_date |-> Some(<<2024, 1, 3>>)],
      [start_date |-> Some(<<2024, 1, 5>>), end_date |-> Some(<<2023, 12, 15>>)],
      [start_date |-> Some(<<2024, 1, 5>>), end_date |-> Some(<<2024, 1, 3>>)],
      [start_date |-> Some(<<2024, 2, 30>>), end_date |-> Some(<<2024, 3, 1>>)],
      [start_date |-> Some(<<2024, 1, 3>>), end_date |-> Some(<<>>)],
      [start_date |-> Some(<<2024, 1, 3>>), end_date |-> None],
      [start_date |-> None, end_date |-> Some(<<2024, 1, 3>>)],
      [start_date |-> None, end_date |-> None],
      [start_date |-> Some(<<MAXYEAR, 12, 1>>),
       end_date |-> Some(<<MAXYEAR, 12, 31>>)],
      [start_date |-> Some(<<2024, 1, 3>>), end_date |-> Some(<<2024, 2, 10>>)],
      [start_date |-> Some(<<2024, 1, 3>>), end_date |-> Some(<<2024, 1>>)],
      [start_date |-> Some(<<>>), end_date |-> Some(<<>>)] }

Init ==
    /\ call = <<>>
    /\ ret = <<>>
    /\ pc = "start"
    /\ args \in ArgChoices
    /\ today = Date(2024, 1, 5)
    /\ start_date = NoDate
    /\ end_date = NoDate
    /\ date_ranges = <<>>
    /\ widx = 0
    /\ browser = "none"
    /\ page_number = 1
    /\ after_token = None
    /\ transactions = <<>>
    /\ dom = BlankPage
    /\ all_transactions = <<>>
    /\ excel = None
    /\ outcome = "running"
    /\ exit_status = None
    /\ enrich_log = <<>>
    /\ win_log = <<>>
    /\ rows_served = 0
    /\ TeamsNotRun

Next ==
    \/ ParseArgs
    \/ Launch
    \/ \E kind \in {"timeout", "error"} : FetchFailed(kind)
    \/ FetchedEmpty
    \/ /\ CanFetch
       /\ \E rows \in PagesLeft : \E outs \in OutsFor(rows, Window[1]) :
              FetchedLastPage(rows, outs)
    \/ /\ CanFetch
       /\ \E rows \in PagesLeft : \E outs \in OutsFor(rows, Window[1]) :
              FetchedPage(rows, outs)
    \/ Save

Spec == Init /\ [][Next]_vars

-----------------------------------------------------------------------------
(* Specification SpecGen: generate_date_ranges applied to pairs of dates *)

GenDays == {1, 15, 28}

ModelDates ==
    {Date(y, m, d) : y \in ModelYears, m \in 1 .. 12, d \in GenDays}

\* dates of the last months the date type holds
EdgeDates == {Date(MAXYEAR, m, d) : m \in {11, 12}, d \in GenDays}

GenInputs ==
    {[start_date |-> s, end_date |-> e] : s \in ModelDates, e \in ModelDates}
    \cup {[start_date |-> s, end_date |-> e] : s \in EdgeDates, e \in EdgeDates}

InitGen ==
    /\ call \in GenInputs
    /\ ret = <<>>
    /\ MainNotRun
    /\ TeamsNotRun

CallGenerate ==
    /\ ret = <<>>
    /\ ret' = <<generate_date_ranges(call.start_date, call.end_date)>>
    /\ UNCHANGED <<call, mainvars, teamvars>>

NextGen == CallGenerate

SpecGen == InitGen /\ [][NextGen]_vars

-----------------------------------------------------------------------------
(* Specification SpecRows: process_transaction_rows applied to one page *)

\* longest date text drawn letter by letter
MaxTextLen == 4

TextAlphabet == {"0", "1", "2", "/", "_"}

RECURSIVE TextsOfLen(_)
TextsOfLen(n) ==
    IF n = 0 THEN {<<>>}
    ELSE {Append(t, c) : t \in TextsOfLen(n - 1), c \in TextAlphabet}

NamedTexts ==
    { <<"5", "/", "1", "2">>, <<"5", "/", "0", "1", "2">>,
      <<"5", "/", "1", "2", "/", "2", "0", "2", "4">>,
      <<"5", "/", "1", "_", "2">>, <<"1", "3", "/", "4", "0">>,
      <<"2", "/", "3", "0">>, <<"2", "/", "2", "9">>,
      <<" ", "5", "/", "1", "2", " ">>, <<"5", "/", "1", " ", "2">>,
      <<"0", "5", "/", "1", "2">>, <<"5", "/", "1">>, <<"5", "/", "3", "1">>,
      <<"1", "2", "/", "2", "0">>, <<"5", "/", "1", "2", "3">> }

DateTexts == NamedTexts \cup UNION {TextsOfLen(n) : n \in 0 .. MaxTextLen}

Range(s, e) == [start_date |-> s, end_date |-> e]

RowRanges ==
    { Range(Date(2024, 5, 1), Date(2024, 5, 31)),
      Range(Date(2024, 5, 1), Date(2024, 5, 1)),
      Range(Date(2023, 12, 15), Date(2024, 1, 5)),
      Range(Date(2024, 1, 10), Date(2024, 3, 12)) }

\* the other row of a two-row page
SecondTexts == { <<"5", "/", "1", "2">> }

\* a row whose player cell holds no link: the name is the cell's text
NoLinkRow(text) ==
    [DateRow(text) EXCEPT !.player_link = None,
                          !.player_cell = Some(<<" ", "T", ".", " ", "B">>)]

\* a row with no player cell at all
NoCellRow(text) ==
    [DateRow(text) EXCEPT !.player_link = None, !.player_cell = None]

\* a row whose player link has no href attribute
NoHrefRow(text) ==
    [DateRow(text) EXCEPT
        !.player_link = Some([text |-> <<"T", ".", " ", "B">>, href |-> None])]

\* the rows without a player reference, for two date texts
NoRefRows ==
    {mk[t] : mk \in {[t \in DateTexts |-> NoLinkRow(t)],
                     [t \in DateTexts |-> NoCellRow(t)],
                     [t \in DateTexts |-> NoHrefRow(t)]},
             t \in {<<"5", "/", "1", "2">>, <<"1", "3", "/", "4", "0">>}}

RowPages ==
    {<<DateRow(t)>> : t \in DateTexts}
    \cup {<<DateRow(t), DateRow(g)>> : t \in DateTexts, g \in SecondTexts}
    \cup {<<DateRow(g), DateRow(t)>> : t \in DateTexts, g \in SecondTexts}
    \cup {<<r>> : r \in NoRefRows}
    \cup {<<r, DateRow(g)>> : r \in NoRefRows, g \in SecondTexts}
    \cup {<<DateRow(g), r>> : r \in NoRefRows, g \in SecondTexts}

InitRows ==
    /\ call \in {[rows |-> pg, year |-> y, start_date |-> r.start_date,
                  end_date |-> r.end_date] :
                     pg \in RowPages, y \in {2023, 2024},
                     r \in RowRanges}
    /\ ret = <<>>
    /\ MainNotRun
    /\ TeamsNotRun

CallProcessRows ==
    /\ ret = <<>>
    /\ \E out \in {o \in EnrichOutcomes : o.kind \in {"loaded", "timeout"}} :
           ret' = <<process_transaction_rows(
                        call.rows, call.year, call.start_date, call.end_date,
                        TRUE, [i \in 1 .. Len(call.rows) |-> out])>>
    /\ UNCHANGED <<call, mainvars, teamvars>>

NextRows == CallProcessRows

SpecRows == InitRows /\ [][NextRows]_vars

-----------------------------------------------------------------------------
(* The player keys of the other scrapers, and specification SpecKey: the   *)
(* key expressions applied to a (player name, team) pair, repeatedly and   *)
(* between calls for another pair.  In SpecKey, call is the pair and ret   *)
(* the log of the calls made, each with the keys the four scrapers build.  *)

\* injuries.py, InjuryData.__init__: lower-cased, spaces and slashes to
\* underscores
InjuryPlayerKey(player, team) ==
    ReplaceChar(
        ReplaceChar(Lower(player \o <<"_">> \o team), " ", <<"_">>),
        "/", <<"_">>)

\* depth_chart.py, PlayerDepthData.__init__
DepthChartPlayerKey(player_name, team) ==
    ReplaceChar(
        ReplaceChar(Lower(player_name \o <<"_">> \o team), " ", <<"_">>),
        "/", <<"_">>)

\* roster.py, the key of a roster entry
RosterPlayerKey(player_name, team_name) ==
    ReplaceChar(
        ReplaceChar(Lower(player_name \o <<"_">> \o team_name), " ", <<"_">>),
        "/", <<"_">>)

\* longest player name drawn letter by letter
MaxNameLen == 3
\* most key calls in one behaviour
MaxKeyCalls == 3

NameAlphabet == {"J", " ", ".", "/"}

RECURSIVE NamesOfLen(_)
NamesOfLen(n) ==
    IF n = 0 THEN {<<>>}
    ELSE {Append(t, c) : t \in NamesOfLen(n - 1), c \in NameAlphabet}

JohnSmith == <<"J", "o", "h", "n", " ", "S", "m", "i", "t", "h">>

DallasCowboys ==
    <<"D", "a", "l", "l", "a", "s", " ", "C", "o", "w", "b", "o", "y", "s">>

NamedNames ==
    { JohnSmith,
      <<"J", "o", "h", "n", " ", " ", "S", "m", "i", "t", "h">>,
      <<"J", "o", "h", "n", "\t", "S", "m", "i", "t", "h">>,
      <<"A", ".", "J", ".", " ", "B">>,
      <<"J", "/", "D">> }

\* the names are texts that strip() has been applied to
KeyNames ==
    {n \in NamedNames \cup UNION {NamesOfLen(k) : k \in 0 .. MaxNameLen} :
        Strip(n) = n}

KeyTeams == { DallasCowboys, <<"N", ".", " ", "D">> }

KeyCall(player, team) ==
    [player |-> player, team |-> team,
     transactions |-> PlayerKey(player, team),
     injuries |-> InjuryPlayerKey(player, team),
     depth_chart |-> DepthChartPlayerKey(player, team),
     roster |-> RosterPlayerKey(player, team)]

InitKey ==
    /\ call \in {[player |-> n, team |-> t] : n \in KeyNames, t \in KeyTeams}
    /\ ret = <<>>
    /\ MainNotRun
    /\ TeamsNotRun

\* the keys are built for the pair of the call
BuildKeys ==
    /\ Len(ret) < MaxKeyCalls
    /\ ret' = Append(ret, KeyCall(call.player, call.team))
    /\ UNCHANGED <<call, mainvars, teamvars>>

\* the keys are built for another pair
BuildOtherKeys ==
    /\ Len(ret) < MaxKeyCalls
    /\ ret' = Append(ret, KeyCall(JohnSmith, DallasCowboys))
    /\ UNCHANGED <<call, mainvars, teamvars>>

NextKey == BuildKeys \/ BuildOtherKeys

SpecKey == InitKey /\ [][NextKey]_vars

-----------------------------------------------------------------------------
(* Specification SpecPosition: get_player_position applied to a profile    *)
(* address, with the browser handle set or not, the profile page answering *)
(* as it likes                                                             *)

\* the hrefs of player links
PlayerHrefs ==
    { "/players/j-d/", "/players/t-b/", "/players/a-j-brown/",
      "/players/john-smith/", "/players/", "/" }

\* texts the position element may hold
PositionTexts ==
    { <<" ", "Q", "B", " ">>, <<"W", "R">>, <<>>, <<"\t", "T", "\n">>,
      <<" ">> }

PositionOutcomes ==
    { [kind |-> "new_page_error"], [kind |-> "timeout"], [kind |-> "error"],
      [kind |-> "loaded", element |-> None] }
    \cup {[kind |-> "loaded", element |-> Some(t)] : t \in PositionTexts}

InitPosition ==
    /\ call \in {[player_url |-> "https://www.nfl.com" \o h,
                  browser_open |-> b, out |-> o] :
                     h \in PlayerHrefs, b \in BOOLEAN, o \in PositionOutcomes}
    /\ ret = <<>>
    /\ MainNotRun
    /\ TeamsNotRun

CallPosition ==
    /\ ret = <<>>
    /\ ret' = <<get_player_position(call.player_url, call.browser_open,
                                    call.out)>>
    /\ UNCHANGED <<call, mainvars, teamvars>>

NextPosition == CallPosition

SpecPosition == InitPosition /\ [][NextPosition]_vars

-----------------------------------------------------------------------------
(* Specification SpecTeams: main.py's main, the per-team scraper.  The     *)
(* browser is launched, the list of teams is scraped, and for every team   *)
(* the depth chart, the roster, the injuries and the transactions are      *)
(* scraped and saved in turn; the site and the file system answer as they  *)
(* like                                                                    *)

\* largest number of teams the team list page yields
MaxTeams == 3

TeamNames == <<"Bills", "Jets", "Colts", "Bears">>

\* the data_type of the four steps of a team, in the order main takes them
StepTypes == <<"depth_chart", "roster", "injuries", "transactions">>

\* how a scrape function may end: browser.new_page() raises before the try,
\* something raises inside the try (re-raised as RuntimeError after the
\* finally closed the page), or the data is returned
ScrapeOutcomes == {"new_page_error", "scrape_error", "ok"}

\* how save_team_data may end: it raises before the JSON file is written,
\* it raises after the JSON file and before the Excel file is written, or
\* both files are written
SaveOutcomes == {"json_error", "excel_error", "ok"}

Event(t, type, what) == [team |-> t, type |-> type, what |-> what]

\* the files save_team_data writes before it returns or raises
save_team_data(team_name, data_type, out) ==
    IF out = "json_error" THEN {}
    ELSE IF out = "excel_error" THEN {<<team_name, data_type, "json">>}
    ELSE {<<team_name, data_type, "json">>, <<team_name, data_type, "xlsx">>}

\* the events of a save, in order
SaveEvents(t, data_type, out) ==
    IF out = "json_error" THEN <<Event(t, data_type, "failed")>>
    ELSE IF out = "excel_error"
    THEN <<Event(t, data_type, "json"), Event(t, data_type, "failed")>>
    ELSE <<Event(t, data_type, "json"), Event(t, data_type, "xlsx")>>

\* p.chromium.launch: a failure is caught by main's outer except
LaunchBrowser(ok) ==
    /\ run_pc = "start"
    /\ IF ok
       THEN /\ espn_browser' = "open"
            /\ run_pc' = "scrape_teams"
            /\ UNCHANGED fatal
       ELSE /\ run_pc' = "done"
            /\ fatal' = TRUE
            /\ UNCHANGED espn_browser
    /\ UNCHANGED <<fnvars, mainvars, teams, team_no, step_no, saved_files,
                   browser_closes, events>>

\* scrape_teams: a failure is raised as RuntimeError, past the loop; the
\* finally closes the browser and the outer except prints the fatal error
ScrapeTeams(out, n) ==
    /\ run_pc = "scrape_teams"
    /\ IF out = "ok"
       THEN /\ teams' = SubSeq(TeamNames, 1, n)
            /\ IF n = 0
               THEN run_pc' = "close" /\ UNCHANGED <<team_no, step_no>>
               ELSE run_pc' = "scrape" /\ team_no' = 1 /\ step_no' = 1
            /\ UNCHANGED <<espn_browser, browser_closes, fatal>>
       ELSE /\ espn_browser' = "closed"
            /\ browser_closes' = browser_closes + 1
            /\ fatal' = TRUE
            /\ run_pc' = "done"
            /\ UNCHANGED <<teams, team_no, step_no>>
    /\ UNCHANGED <<fnvars, mainvars, saved_files, events>>

\* the except of the team's try: print and continue with the next team
NextTeam ==
    IF team_no < Len(teams)
    THEN run_pc' = "scrape" /\ team_no' = team_no + 1 /\ step_no' = 1
    ELSE run_pc' = "close" /\ UNCHANGED <<team_no, step_no>>

\* a failed scrape that ends the loop over the teams
StepScrapeAborts(out) ==
    /\ run_pc = "scrape"
    /\ IF out = "ok"
       THEN /\ events' = Append(events,
                            Event(team_no, StepTypes[step_no], "start"))
            /\ run_pc' = "save"
            /\ UNCHANGED <<team_no, step_no>>
       ELSE /\ events' = events
                         \o <<Event(team_no, StepTypes[step_no], "start"),
                              Event(team_no, StepTypes[step_no], "failed")>>
            /\ run_pc' = "close"
            /\ UNCHANGED <<team_no, step_no>>
    /\ UNCHANGED <<fnvars, mainvars, espn_browser, teams, saved_files, fatal,
                   browser_closes>>

\* get_team_depth, get_team_roster, get_team_injuries or
\* get_team_transactions for the current team
StepScrape(out) ==
    /\ run_pc = "scrape"
    /\ IF out = "ok"
       THEN /\ events' = Append(events,
                            Event(team_no, StepTypes[step_no], "start"))
            /\ run_pc' = "save"
            /\ UNCHANGED <<team_no, step_no>>
       ELSE /\ events' = events
                         \o <<Event(team_no, StepTypes[step_no], "start"),
                              Event(team_no, StepTypes[step_no], "failed")>>
            /\ NextTeam
    /\ UNCHANGED <<fnvars, mainvars, espn_browser, teams, saved_files, fatal,
                   browser_closes>>

\* save_team_data for the data the step scraped
StepSave(out) ==
    /\ run_pc = "save"
    /\ saved_files' = saved_files
                      \cup save_team_data(teams[team_no], StepTypes[step_no],
                                          out)
    /\ events' = events \o SaveEvents(team_no, StepTypes[step_no], out)
    /\ IF out = "ok" /\ step_no < Len(StepTypes)
       THEN run_pc' = "scrape" /\ step_no' = step_no + 1 /\ UNCHANGED team_no
       ELSE NextTeam
    /\ UNCHANGED <<fnvars, mainvars, espn_browser, teams, fatal,
                   browser_closes>>

\* the loop is over: the finally closes the browser
CloseBrowser ==
    /\ run_pc = "close"
    /\ espn_browser' = "closed"
    /\ browser_closes' = browser_closes + 1
    /\ run_pc' = "done"
    /\ UNCHANGED <<fnvars, mainvars, teams, team_no, step_no, saved_files,
                   fatal, events>>

InitTeams ==
    /\ call = <<>>
    /\ ret = <<>>
    /\ MainNotRun
    /\ TeamsNotRun

NextTeams ==
    \/ \E ok \in BOOLEAN : LaunchBrowser(ok)
    \/ \E out \in ScrapeOutcomes : \E n \in 0 .. MaxTeams : ScrapeTeams(out, n)
    \/ \E out \in ScrapeOutcomes : StepScrape(out)
    \/ \E out \in SaveOutcomes : StepSave(out)
    \/ CloseBrowser

SpecTeams == InitTeams /\ [][NextTeams]_vars

-----------------------------------------------------------------------------
(* Specification SpecScrape: get_team_depth of depth_chart.py and          *)
(* scrape_injury_reports of injuries.py applied to a page that answers as  *)
(* it likes: an element may be read or raise                               *)

\* largest number of tables of a depth chart page
MaxTables == 2
\* largest number of player cells of a table
MaxCells == 2
\* largest number of headers and units of an injury report
MaxElements == 3
\* largest number of rows of a unit
MaxUnitRows == 2

\* sequences of at most n elements of S
SeqsUpTo(S, n) == UNION {[1 .. k -> S] : k \in 0 .. n}

\* a player cell: a link with a name, a link reading "-" or nothing, no
\* link, or a cell whose query raises
DepthCellKinds == {"player", "dash", "nolink", "error"}

\* a table: fewer than two tbody elements, a query on it raises, or the
\* player cells of its rows in the order the loops reach them
DepthTables ==
    { [kind |-> "short"], [kind |-> "error"] }
    \cup {[kind |-> "rows", cells |-> c] :
             c \in SeqsUpTo(DepthCellKinds, MaxCells)}

DepthOutcomes ==
    { [kind |-> "new_page_error"], [kind |-> "load_error"] }
    \cup {[kind |-> "loaded", tables |-> t] :
             t \in SeqsUpTo(DepthTables, MaxTables)}

\* the cells of a table from place j on: ok is FALSE when a cell raised, and
\* players is the list as it stood then
RECURSIVE DepthCellsFrom(_, _, _, _)
DepthCellsFrom(cells, ti, j, all_players) ==
    IF j > Len(cells) THEN [ok |-> TRUE, players |-> all_players]
    ELSE IF cells[j] = "error" THEN [ok |-> FALSE, players |-> all_players]
    ELSE IF cells[j] = "player"
    THEN DepthCellsFrom(cells, ti, j + 1,
                        Append(all_players, [table |-> ti, cell |-> j]))
    ELSE DepthCellsFrom(cells, ti, j + 1, all_players)

\* the loop over the tables from place i on
RECURSIVE DepthTablesFrom(_, _, _)
DepthTablesFrom(tables, i, all_players) ==
    IF i > Len(tables) THEN [ok |-> TRUE, players |-> all_players]
    ELSE IF tables[i].kind = "error"
    THEN [ok |-> FALSE, players |-> all_players]
    ELSE IF tables[i].kind = "short"
    THEN DepthTablesFrom(tables, i + 1, all_players)
    ELSE LET r == DepthCellsFrom(tables[i].cells, i, 1, all_players)
         IN  IF r.ok THEN DepthTablesFrom(tables, i + 1, r.players) ELSE r

\* a depth scraper that returns what it gathered when an error stops it
GetTeamDepthKeepsPartial(out) ==
    IF out.kind = "new_page_error"
    THEN [raised |-> TRUE, value |-> <<>>, opened |-> 0, closed |-> 0]
    ELSE IF out.kind = "load_error"
    THEN [raised |-> FALSE, value |-> <<>>, opened |-> 1, closed |-> 1]
    ELSE [raised |-> FALSE,
          value |-> DepthTablesFrom(out.tables, 1, <<>>).players,
          opened |-> 1, closed |-> 1]

\* get_team_depth: the page is opened before the try; an exception inside
\* the try is printed and [] returned; the finally closes the page
get_team_depth(out) ==
    IF out.kind = "new_page_error"
    THEN [raised |-> TRUE, value |-> <<>>, opened |-> 0, closed |-> 0]
    ELSE IF out.kind = "load_error"
    THEN [raised |-> FALSE, value |-> <<>>, opened |-> 1, closed |-> 1]
    ELSE LET r == DepthTablesFrom(out.tables, 1, <<>>)
         IN  [raised |-> FALSE,
              value |-> IF r.ok THEN r.players ELSE <<>>,
              opened |-> 1, closed |-> 1]

\* a row of a unit: a full row with a player link, a row that is skipped
\* (fewer than five cells, no link), or a row whose query raises
UnitRowKinds == {"row", "skipped", "error"}

\* the date texts a header may carry: one that parses, one that does not
HeaderDates == {Some("2023-09-07"), None}

\* an element of the report: a date header, a unit (one game), or an element
\* whose class or text cannot be read
InjuryElements ==
    { [kind |-> "error"] }
    \cup {[kind |-> "header", date |-> d] : d \in HeaderDates}
    \cup {[kind |-> "unit", rows |-> r] :
             r \in SeqsUpTo(UnitRowKinds, MaxUnitRows)}

InjuryOutcomes ==
    { [kind |-> "new_page_error"], [kind |-> "load_error"],
      [kind |-> "no_wrap"] }
    \cup {[kind |-> "loaded", elements |-> e] :
             e \in SeqsUpTo(InjuryElements, MaxElements)}

\* parse_game_date: a header that does not parse gives today's date
parse_game_date(header) ==
    IF header.date # None THEN header.date[1] ELSE "today"

\* process_injury_unit from row j on: an exception is logged and the
\* injuries gathered so far are returned
RECURSIVE UnitRowsFrom(_, _, _, _, _)
UnitRowsFrom(rows, ui, j, game_date, injuries) ==
    IF j > Len(rows) THEN injuries
    ELSE IF rows[j] = "error" THEN injuries
    ELSE IF rows[j] = "row"
    THEN UnitRowsFrom(rows, ui, j + 1, game_date,
                      Append(injuries,
                             [unit |-> ui, row |-> j, date |-> game_date]))
    ELSE UnitRowsFrom(rows, ui, j + 1, game_date, injuries)

process_injury_unit(rows, ui, game_date) ==
    UnitRowsFrom(rows, ui, 1, game_date, <<>>)

\* the loop over the elements from place i on
RECURSIVE InjuryElementsFrom(_, _, _, _)
InjuryElementsFrom(elements, i, current_date, all_injuries) ==
    IF i > Len(elements) THEN [ok |-> TRUE, injuries |-> all_injuries]
    ELSE IF elements[i].kind = "error"
    THEN [ok |-> FALSE, injuries |-> all_injuries]
    ELSE IF elements[i].kind = "header"
    THEN InjuryElementsFrom(elements, i + 1, parse_game_date(elements[i]),
                            all_injuries)
    ELSE IF current_date # ""
    THEN InjuryElementsFrom(elements, i + 1, current_date,
                            all_injuries
                            \o process_injury_unit(elements[i].rows, i,
                                                   current_date))
    ELSE InjuryElementsFrom(elements, i + 1, current_date, all_injuries)

\* scrape_injury_reports: the page is opened before the try; without the
\* report wrap [] is returned; an exception inside the try is logged and []
\* returned; the finally closes the page
scrape_injury_reports(out) ==
    IF out.kind = "new_page_error"
    THEN [raised |-> TRUE, value |-> <<>>, opened |-> 0, closed |-> 0]
    ELSE IF out.kind \in {"load_error", "no_wrap"}
    THEN [raised |-> FALSE, value |-> <<>>, opened |-> 1, closed |-> 1]
    ELSE LET r == InjuryElementsFrom(out.elements, 1, "", <<>>)
         IN  [raised |-> FALSE,
              value |-> IF r.ok THEN r.injuries ELSE <<>>,
              opened |-> 1, closed |-> 1]

InitScrape ==
    /\ call \in {[scraper |-> "depth_chart", out |-> o] : o \in DepthOutcomes}
                \cup {[scraper |-> "injuries", out |-> o] :
                         o \in InjuryOutcomes}
    /\ ret = <<>>
    /\ MainNotRun
    /\ TeamsNotRun

CallGetTeamDepth ==
    /\ ret = <<>>
    /\ call.scraper = "depth_chart"
    /\ ret' = <<get_team_depth(call.out)>>
    /\ UNCHANGED <<call, mainvars, teamvars>>

CallScrapeInjuryReports ==
    /\ ret = <<>>
    /\ call.scraper = "injuries"
    /\ ret' = <<scrape_injury_reports(call.out)>>
    /\ UNCHANGED <<call, mainvars, teamvars>>

NextScrape == CallGetTeamDepth \/ CallScrapeInjuryReports

SpecScrape == InitScrape /\ [][NextScrape]_vars

-----------------------------------------------------------------------------
(* Properties of generate_date_ranges (SpecGen) *)

Returned == ret # <<>>

\* the calendar months the inclusive range s..e touches
MonthsTouched(s, e) ==
    {<<y, m>> : y \in s.year .. e.year, m \in 1 .. 12} \cap
    {p \in (s.year .. e.year) \X (1 .. 12) :
        /\ s.year * 12 + s.month <= p[1] * 12 + p[2]
        /\ p[1] * 12 + p[2] <= e.year * 12 + e.month}

StrictlyAscending(w) ==
    \A i \in 1 .. (Len(w) - 1) : PairLT(w[i], w[i + 1])

SeqRange(w) == {w[i] : i \in 1 .. Len(w)}

\* C5: for every start_date <= end_date the generator returns the windows
\* sorted ascending, without duplicates, exactly the calendar months the
\* inclusive range touches; a single-day range gives the one window of its day
C5_WindowsAreMonthsTouched ==
    (Returned /\ DateLE(call.start_date, call.end_date)) =>
        /\ ret[1].ok
        /\ StrictlyAscending(ret[1].val)
        /\ SeqRange(ret[1].val) = MonthsTouched(call.start_date, call.end_date)
        /\ (call.start_date = call.end_date =>
               ret[1].val = <<<<call.start_date.year, call.start_date.month>>>>)

\* C6 (as the code has it): for start_date > end_date the generator raises
\* nothing and returns the empty list of windows
C6_InvertedReturnsEmpty ==
    (Returned /\ DateLT(call.end_date, call.start_date)) => ret[1] = Ok(<<>>)

C6_Witness ==
    /\ Returned
    /\ DateLT(call.end_date, call.start_date)
    /\ call.start_date.year = call.end_date.year + 1

\* C6 (as claimed): for start_date > end_date the generator fails with
\* InvalidRangeError and returns no sequence
C6_InvertedRaises ==
    (Returned /\ DateLT(call.end_date, call.start_date)) =>
        ret[1] = Raise("InvalidRangeError")

-----------------------------------------------------------------------------
(* Properties of process_transaction_rows (SpecRows) *)

\* re.fullmatch(r"\d{1,2}/\d{1,2}", s): the whole text is month/day with one
\* or two digits each
ReFullMatchDate(s) ==
    \E i \in {1, 2}, j \in {1, 2} :
        /\ Len(s) = i + 1 + j
        /\ \A k \in 1 .. i : s[k] \in Digits
        /\ s[i + 1] = "/"
        /\ \A k \in (i + 2) .. (i + 1 + j) : s[k] \in Digits

\* the number a text of one or two digits writes
TwoDigits(ds) ==
    IF Len(ds) = 1 THEN DigitVal(ds[1])
    ELSE 10 * DigitVal(ds[1]) + DigitVal(ds[2])

SlashAt(s) == CHOOSE i \in 1 .. Len(s) : s[i] = "/"

\* the date a date text stands for under a window year: the text is exactly
\* month/day and names a calendar date of that year; None otherwise
ResolvedDate(s, year) ==
    IF ~ReFullMatchDate(s) THEN None
    ELSE LET m == TwoDigits(SubSeq(s, 1, SlashAt(s) - 1))
             d == TwoDigits(SubSeq(s, SlashAt(s) + 1, Len(s)))
         IN  IF ValidDate(year, m, d) THEN Some(Date(year, m, d)) ELSE None

InRange(dt, s, e) == DateLE(s, dt) /\ DateLE(dt, e)

\* the text names a date of the year that lies in s..e
Accepted(text, year, s, e) ==
    /\ ResolvedDate(text, year) # None
    /\ InRange(ResolvedDate(text, year)[1], s, e)

RECURSIVE ExpectedDates(_, _, _, _)
\* the dates of the records a page with these date texts must give, in row
\* order
ExpectedDates(texts, year, s, e) ==
    IF texts = <<>> THEN <<>>
    ELSE (IF Accepted(Head(texts), year, s, e)
          THEN <<StrfTime(ResolvedDate(Head(texts), year)[1])>> ELSE <<>>)
         \o ExpectedDates(Tail(texts), year, s, e)

DatesOf(recs) == [i \in 1 .. Len(recs) |-> recs[i].date]

May12Page == <<DateRow(<<"5", "/", "1", "2">>)>>

\* C3: a page whose rows all carry a valid month/day gives a record for a row
\* if and only if start_date <= date(year, month, day) <= end_date; "5/12"
\* under 2024 is accepted for 2024-05-01..2024-05-31 as 2024-05-12 and
\* rejected for 2024-05-01..2024-05-01
C3_AcceptedIffInRange ==
    Returned =>
        /\ (\A i \in 1 .. Len(call.rows) :
                ResolvedDate(CellText(call.rows[i].date_cell), call.year)
                    # None)
           => DatesOf(ret[1].transactions)
                = ExpectedDates(DateTextsOf(call.rows), call.year,
                                call.start_date, call.end_date)
        /\ (call.rows = May12Page /\ call.year = 2024
            /\ call.start_date = Date(2024, 5, 1))
           => /\ call.end_date = Date(2024, 5, 31)
                 => DatesOf(ret[1].transactions) = <<"2024-05-12">>
              /\ call.end_date = Date(2024, 5, 1)
                 => ret[1].transactions = <<>>

C3_Witness ==
    /\ Returned
    /\ call.rows = May12Page
    /\ call.year = 2024
    /\ call.start_date = Date(2024, 5, 1)
    /\ call.end_date = Date(2024, 5, 31)
    /\ DatesOf(ret[1].transactions) = <<"2024-05-12">>

\* C10: a row whose text is not exactly month/day, or whose month/day is no
\* calendar date of the window's year, gives no record, and the other rows of
\* the page are processed as if it were not there
C10_MalformedRowsRejected ==
    Returned =>
        DatesOf(ret[1].transactions)
            = ExpectedDates(DateTextsOf(call.rows), call.year,
                            call.start_date, call.end_date)

-----------------------------------------------------------------------------
(* Properties of a run of main (Spec) *)

Failed(w) == w.state \in {"failed_timeout", "failed_error"}

\* this step is a page fetch that fails
FailedFetchStep ==
    /\ pc = "walk"
    /\ widx' = widx + 1
    /\ Failed(win_log'[widx])

RECURSIVE SumReturned(_)
SumReturned(log) ==
    IF log = <<>> THEN 0 ELSE Head(log).returned + SumReturned(Tail(log))

\* C1: a page fetch that fails ends its window only: the records the window
\* had gathered are returned and appended to main's result, the next window
\* is walked, and a run that saves has walked every window and holds every
\* window's records
C1_FailureEndsWindowOnly ==
    [][ /\ FailedFetchStep =>
              /\ all_transactions' = all_transactions \o transactions
              /\ win_log'[widx].returned = Len(transactions)
              /\ IF widx < Len(date_ranges)
                 THEN /\ pc' = "walk"
                      /\ win_log'[widx + 1] = NewWindow(date_ranges[widx + 1])
                 ELSE pc' = "save"
        /\ (pc' = "done" /\ outcome' = "saved") =>
              /\ Len(win_log') = Len(date_ranges')
              /\ \A k \in 1 .. Len(win_log') :
                     /\ <<win_log'[k].year, win_log'[k].month>> = date_ranges'[k]
                     /\ win_log'[k].fetches >= 1
                     /\ win_log'[k].state # "walking"
              /\ SumReturned(win_log') = Len(all_transactions')
              /\ excel' = Some(all_transactions')
      ]_vars

C1_Witness ==
    /\ pc = "done"
    /\ outcome = "saved"
    /\ Len(win_log) = 2
    /\ Failed(win_log[1])
    /\ win_log[1].fetches = 2
    /\ win_log[1].returned = 1
    /\ win_log[2].returned = 1
    /\ Len(all_transactions) = 2

\* the largest cap on a window's page fetches that the model can show passed
PageCap == MaxPages - 1

\* the page just fetched gave back the token it was fetched with
NonAdvancing ==
    /\ Truthy(after_token)
    /\ dom.status = "loaded"
    /\ dom.url = WalkUrl(Window[1], Window[2], after_token)

\* C2: the walker stops within a fixed number of page fetches per window, also
\* when every page has rows and gives back the token it was fetched with:
\* after PageCap fetches it is not about to fetch again
C2_PageFetchesCapped ==
    (pc = "walk" /\ NonAdvancing) => win_log[widx].fetches <= PageCap

\* the records gathered so far, in the order of the final result
Held == all_transactions \o transactions

FailedLookup(e) == e.kind \in {"timeout", "error", "new_page_error"}

\* C4: a position lookup that times out or fails gives the empty text, and
\* the record of its row is in the result, with an empty position, up to and
\* including what is handed to the spreadsheet writer
C4_FailedLookupKeepsRecord ==
    \A k \in 1 .. Len(enrich_log) :
        FailedLookup(enrich_log[k]) =>
            /\ enrich_log[k].position = <<>>
            /\ enrich_log[k].owner <= Len(Held)
            /\ Held[enrich_log[k].owner].position = <<>>
            /\ (pc = "done" =>
                   /\ excel # None
                   /\ enrich_log[k].owner <= Len(excel[1])
                   /\ excel[1][enrich_log[k].owner].position = <<>>)

C4_Witness ==
    /\ pc = "done"
    /\ excel # None
    /\ \E k \in 1 .. Len(enrich_log) :
           /\ enrich_log[k].kind = "timeout"
           /\ enrich_log[k].owner = 2
           /\ Len(excel[1]) = 2
           /\ excel[1][2].position = <<>>
           /\ excel[1][1].position = <<"Q", "B">>

\* both dates are given and readable, and the start is later than the end
InvertedArgs ==
    /\ args.start_date # None
    /\ args.end_date # None
    /\ Strptime(args.start_date[1]).ok
    /\ Strptime(args.end_date[1]).ok
    /\ DateLT(Strptime(args.end_date[1]).val, Strptime(args.start_date[1]).val)

\* C7: with an inverted date range the run ends before anything is fetched:
\* the browser is never launched, no page is navigated, no position is looked
\* up and nothing is handed to the spreadsheet writer
C7_InvertedRangeFetchesNothing ==
    InvertedArgs =>
        /\ pc \in {"start", "done"}
        /\ browser = "none"
        /\ dom = BlankPage
        /\ win_log = <<>>
        /\ enrich_log = <<>>
        /\ excel = None

C7_Witness ==
    /\ InvertedArgs
    /\ pc = "done"
    /\ outcome = "inverted"

\* C8: the run ends with a non-zero exit status when the start date is later
\* than the end date, and with status zero once the result is handed to the
\* spreadsheet writer
C8_ExitStatus ==
    pc = "done" =>
        /\ InvertedArgs => (exit_status # None /\ exit_status[1] # 0)
        /\ outcome = "saved" =>
               (exit_status = Some(0) /\ excel = Some(all_transactions))

\* the number of texts that name a date in s..e
CountAccepted(texts, year, s, e) ==
    Cardinality({i \in 1 .. Len(texts) : Accepted(texts[i], year, s, e)})

\* two windows: the first gave one page of two rows, one in range and one
\* not, and no next link; the second gave one row in range on its first page
\* and failed on its second
TwoWindowScenario ==
    /\ Len(win_log) = 2
    /\ win_log[1].state = "exhausted_no_next"
    /\ win_log[1].fetches = 1
    /\ Len(win_log[1].pages[1].texts) = 2
    /\ CountAccepted(win_log[1].pages[1].texts, win_log[1].year,
                     start_date, end_date) = 1
    /\ Failed(win_log[2])
    /\ win_log[2].fetches = 2
    /\ Len(win_log[2].pages[1].texts) = 1
    /\ CountAccepted(win_log[2].pages[1].texts, win_log[2].year,
                     start_date, end_date) = 1

\* C9: in that scenario the result holds exactly two records, the first
\* window's then the second's, each with the position its lookup gave; it is
\* handed to the spreadsheet writer and the run ends without a fatal error
C9_TwoWindowScenario ==
    (pc = "done" /\ TwoWindowScenario) =>
        /\ outcome = "saved"
        /\ exit_status = Some(0)
        /\ excel = Some(all_transactions)
        /\ DatesOf(all_transactions)
             = ExpectedDates(win_log[1].pages[1].texts, win_log[1].year,
                             start_date, end_date)
               \o ExpectedDates(win_log[2].pages[1].texts, win_log[2].year,
                                start_date, end_date)
        /\ Len(all_transactions) = 2
        /\ Len(enrich_log) = 2
        /\ \A k \in 1 .. 2 :
               /\ enrich_log[k].owner = k
               /\ all_transactions[k].position = enrich_log[k].position

C9_Witness ==
    /\ pc = "done"
    /\ TwoWindowScenario
    /\ Len(all_transactions) = 2


-----------------------------------------------------------------------------
(* Properties of the player key (SpecKey) *)

JohnSmithKey ==
    <<"j", "o", "h", "n", "_", "s", "m", "i", "t", "h", "_",
      "d", "a", "l", "l", "a", "s", "_", "c", "o", "w", "b", "o", "y", "s">>

RECURSIVE CollapseSpace(_, _)
\* s lower-cased, with every maximal run of whitespace replaced by one
\* underscore and every period removed; in_run says the character before
\* belonged to a run of whitespace
CollapseSpace(s, in_run) ==
    IF s = <<>> THEN <<>>
    ELSE IF IsSpace(Head(s))
    THEN (IF in_run THEN <<>> ELSE <<"_">>) \o CollapseSpace(Tail(s), TRUE)
    ELSE IF Head(s) = "." THEN CollapseSpace(Tail(s), FALSE)
    ELSE <<LowerChar(Head(s))>> \o CollapseSpace(Tail(s), FALSE)

CanonicalKey(subject_name, target_entity) ==
    CollapseSpace(subject_name \o <<"_">> \o target_entity, FALSE)

\* C12: in the key every maximal run of whitespace of
\* player name + "_" + team (several spaces, tabs) is one underscore, and
\* every period is removed
C12_WhitespaceRunsCollapse ==
    \A i \in 1 .. Len(ret) :
        ret[i].transactions = CanonicalKey(ret[i].player, ret[i].team)

\* C13: for every (player name, team) pair the key of the transactions
\* scraper equals the keys of the injuries, depth-chart and roster scrapers
C13_OneKeyRuleEverywhere ==
    \A i \in 1 .. Len(ret) :
        /\ ret[i].transactions = ret[i].injuries
        /\ ret[i].transactions = ret[i].depth_chart
        /\ ret[i].transactions = ret[i].roster

-----------------------------------------------------------------------------
(* Further properties of a run of main (Spec) *)

\* neither --start-date nor --end-date is given
DefaultArgs == args.start_date = None /\ args.end_date = None

FirstOfMonth(d) == Date(d.year, d.month, 1)

\* C14: with neither date given, the window used for filtering runs from the
\* first day of the current month to today, so every page gives a record for
\* each row dated from the first of the month to today
C14_DefaultWindowIsMonthToDate ==
    (DefaultArgs /\ pc # "start") =>
        /\ start_date = FirstOfMonth(today)
        /\ end_date = today
        /\ \A k \in 1 .. Len(win_log) :
               \A p \in 1 .. Len(win_log[k].pages) :
                   win_log[k].pages[p].got
                       = CountAccepted(win_log[k].pages[p].texts,
                                       win_log[k].year,
                                       FirstOfMonth(today), today)

-----------------------------------------------------------------------------
(* Properties of the position lookups of process_transaction_rows (SpecRows) *)

\* the row carries a player reference: a link with a non-empty href
HasRef(row) ==
    /\ row.player_link # None
    /\ row.player_link[1].href # None
    /\ row.player_link[1].href[1] # ""

\* the place in the result of the record of row i, when the row gave one
RecIndex(hows, i) == Cardinality({j \in 1 .. i : hows[j] = "added"})

\* the name the code gives a row without a link
NameWithoutLink(row) ==
    IF row.player_cell = None
    THEN <<"U", "n", "k", "n", "o", "w", "n", " ", "P", "l", "a", "y", "e", "r">>
    ELSE Strip(row.player_cell[1])

\* C15: a row without a player reference whose date is in range gives a
\* record; the record of such a row has the empty position and no position
\* lookup is made for it
C15_NoReferenceNoLookup ==
    Returned =>
        \A i \in 1 .. Len(call.rows) :
            ~HasRef(call.rows[i]) =>
                /\ Accepted(CellText(call.rows[i].date_cell), call.year,
                            call.start_date, call.end_date)
                   => ret[1].hows[i] = "added"
                /\ ret[1].hows[i] = "added" =>
                       LET k == RecIndex(ret[1].hows, i)
                       IN  /\ k <= Len(ret[1].transactions)
                           /\ ret[1].transactions[k].position = <<>>
                           /\ call.rows[i].player_link = None
                              => ret[1].transactions[k].player
                                   = NameWithoutLink(call.rows[i])
                           /\ \A c \in 1 .. Len(ret[1].calls) :
                                  ret[1].calls[c].owner # k

C15_Witness ==
    /\ Returned
    /\ call.rows = <<DateRow(<<"5", "/", "1", "2">>),
                     NoLinkRow(<<"5", "/", "1", "2">>)>>
    /\ call.year = 2024
    /\ call.end_date = Date(2024, 5, 31)
    /\ Len(ret[1].transactions) = 2
    /\ ret[1].transactions[1].position = <<"Q", "B">>
    /\ ret[1].transactions[2].position = <<>>
    /\ ret[1].transactions[2].player = <<"T", ".", " ", "B">>
    /\ Len(ret[1].calls) = 1

\* the rows that gave a record and carry a reference
AddedWithRef ==
    {i \in 1 .. Len(call.rows) :
        ret[1].hows[i] = "added" /\ HasRef(call.rows[i])}

\* C16: the position is looked up exactly once for each row that gave a
\* record and has a reference, in row order, and for no other row: the
\* number of lookups is the number of such rows, each lookup opens one page
\* once, also when it fails.  (A row counts as accepted when the filter let
\* it through.)
C16_OneLookupPerAcceptedReference ==
    Returned =>
        /\ Len(ret[1].calls) = Cardinality(AddedWithRef)
        /\ {ret[1].calls[k].owner : k \in 1 .. Len(ret[1].calls)}
             = {RecIndex(ret[1].hows, i) : i \in AddedWithRef}
        /\ \A k \in 1 .. Len(ret[1].calls) :
               /\ ret[1].calls[k].opened = 1
               /\ ret[1].calls[k].closed = 1
               /\ k < Len(ret[1].calls)
                  => ret[1].calls[k].owner < ret[1].calls[k + 1].owner

C16_Witness ==
    /\ Returned
    /\ Len(call.rows) = 2
    /\ HasRef(call.rows[1])
    /\ HasRef(call.rows[2])
    /\ ret[1].hows = <<"added", "out_of_range">>
    /\ Len(ret[1].calls) = 1
    /\ ret[1].calls[1].kind = "timeout"
    /\ ret[1].transactions[1].position = <<>>

\* this step is a page fetch of the window being walked
FetchStep ==
    /\ pc = "walk"
    /\ win_log'[widx].fetches = win_log[widx].fetches + 1

\* the walk of window k has ended
Ended(k) == win_log[k].state # "walking"

RECURSIVE PagesDates(_, _)
\* the dates of the rows in range on the pages logged for a window of this
\* year, page after page and row after row
PagesDates(pages, year) ==
    IF pages = <<>> THEN <<>>
    ELSE ExpectedDates(Head(pages).texts, year, start_date, end_date)
         \o PagesDates(Tail(pages), year)

RECURSIVE EndedDates(_)
\* the same for the windows of a log whose walk has ended, window after window
EndedDates(log) ==
    IF log = <<>> THEN <<>>
    ELSE (IF Head(log).state # "walking"
          THEN PagesDates(Head(log).pages, Head(log).year) ELSE <<>>)
         \o EndedDates(Tail(log))

\* C17: the windows are walked one after another in ascending (year, month)
\* order: a page is fetched, and a position looked up, only for the window
\* being walked, every window before it having ended; and main's result
\* holds the records of the windows in that order
C17_WindowsInSequence ==
    [][ /\ StrictlyAscending(date_ranges)
        /\ \A k \in 1 .. Len(win_log) :
               /\ <<win_log[k].year, win_log[k].month>> = date_ranges[k]
               /\ k < Len(win_log) => Ended(k)
        /\ FetchStep =>
               /\ widx = Len(win_log)
               /\ \A k \in 1 .. (widx - 1) : Ended(k)
               /\ dom'.url = WalkUrl(Window[1], Window[2], after_token)
               /\ \A k \in (Len(enrich_log) + 1) .. Len(enrich_log') :
                      enrich_log'[k].win = widx
        /\ \A k \in 1 .. (Len(enrich_log) - 1) :
               enrich_log[k].win <= enrich_log[k + 1].win
        /\ DatesOf(all_transactions) = EndedDates(win_log)
      ]_vars

C17_Witness ==
    /\ pc = "done"
    /\ Len(win_log) = 2
    /\ Len(enrich_log) = 3
    /\ enrich_log[1].win = 1
    /\ enrich_log[2].win = 2
    /\ enrich_log[3].win = 2
    /\ DatesOf(all_transactions) = <<"2023-12-20", "2024-01-03", "2024-01-03">>

\* the date texts of the rows served under window k
WindowTexts(k) ==
    UNION {SeqRange(win_log[k].pages[p].texts) :
               p \in 1 .. Len(win_log[k].pages)}

\* the record's date is the month/day of a row served under window k, as a
\* date of the year of window k
RecordYearIs(rec, k) ==
    \E t \in WindowTexts(k) :
        /\ ResolvedDate(t, date_ranges[k][1]) # None
        /\ rec.date = StrfTime(ResolvedDate(t, date_ranges[k][1])[1])

\* C18: every record carries a date of the year of the window its row was
\* fetched under, and a page gives records for exactly the rows whose
\* month/day, read as a date of the window's year, lies in the range,
\* whatever month the text names
C18_RecordYearIsWindowYear ==
    /\ Len(enrich_log) = Len(Held)
    /\ \A k \in 1 .. Len(enrich_log) :
           /\ enrich_log[k].owner = k
           /\ RecordYearIs(Held[k], enrich_log[k].win)
    /\ \A k \in 1 .. Len(win_log) :
           \A p \in 1 .. Len(win_log[k].pages) :
               win_log[k].pages[p].got
                   = CountAccepted(win_log[k].pages[p].texts, win_log[k].year,
                                   start_date, end_date)

C18_Witness ==
    /\ pc = "done"
    /\ Len(win_log) = 2
    /\ Len(win_log[1].pages) = 1
    /\ Len(win_log[2].pages) = 1
    /\ win_log[1].pages[1] = [texts |-> <<<<"1", "2", "/", "2", "0">>>>, got |-> 1]
    /\ win_log[2].pages[1]
         = [texts |-> << <<"1", "2", "/", "2", "0">>, <<"1", "/", "3">> >>,
            got |-> 1]
    /\ DatesOf(all_transactions) = <<"2023-12-20", "2024-01-03">>

RECURSIVE ReturnedBefore(_)
\* the number of records the windows 1 .. k of the log returned
ReturnedBefore(k) ==
    IF k = 0 THEN 0 ELSE win_log[k].returned + ReturnedBefore(k - 1)

\* the records window k returned, as they stand in main's result
ResultOf(k) ==
    SubSeq(all_transactions, ReturnedBefore(k - 1) + 1, ReturnedBefore(k))

OfferedToken == NextToken(dom.next_link[1].href)

\* C20: when the page just fetched has a next-page link, the next fetch of
\* the window carries the token taken from that link: the cursor is set, and
\* the address fetched is the window's address with that token
C20_NextFetchCarriesNewToken ==
    [][ (FetchStep /\ dom.status = "loaded" /\ dom.next_link # None) =>
            /\ Truthy(after_token)
            /\ after_token = OfferedToken
            /\ dom'.url = BaseUrl(Window[1], Window[2]) \o "?after="
                              \o OfferedToken[1]
      ]_vars

\* this step loads a page without table rows
EmptyPageStep ==
    /\ FetchStep
    /\ dom'.status = "loaded"
    /\ dom'.nrows = 0

\* after this step the next window is walked, or none is left
NextWindowFollows ==
    /\ widx' = widx + 1
    /\ IF widx < Len(date_ranges)
       THEN /\ pc' = "walk"
            /\ win_log'[widx + 1] = NewWindow(date_ranges[widx + 1])
       ELSE pc' = "save"

\* C21: when the first page fetched for a window has no rows the window ends
\* at once as exhausted, with one fetch, no position lookup and no record;
\* the next window is walked; and no window whose walk has ended is fetched
\* for again
C21_EmptyFirstPageExhausts ==
    [][ /\ (EmptyPageStep /\ page_number = 1) =>
               /\ win_log'[widx].state = "exhausted_empty"
               /\ win_log'[widx].fetches = 1
               /\ win_log'[widx].returned = 0
               /\ enrich_log' = enrich_log
               /\ all_transactions' = all_transactions
               /\ outcome' = "running"
               /\ NextWindowFollows
        /\ \A k \in 1 .. Len(win_log) : Ended(k) => win_log'[k] = win_log[k]
      ]_vars

C21_Witness ==
    /\ pc = "done"
    /\ outcome = "saved"
    /\ Len(win_log) = 2
    /\ win_log[1].state = "exhausted_empty"
    /\ win_log[1].fetches = 1
    /\ win_log[2].returned = 1
    /\ Len(all_transactions) = 1

\* the link of the page just loaded offers no token: its href is missing or
\* holds no "after="
LinkWithoutToken(page) ==
    /\ page.status = "loaded"
    /\ page.next_link # None
    /\ \/ page.next_link[1].href = None
       \/ ~HasAfter(page.next_link[1].href[1])

\* C22: when a page has a next-page link whose href is missing or holds no
\* "after=", the cursor becomes unset, the page counter still advances and the
\* walk of the window goes on; the fetch that follows goes to the window's
\* base address
C22_LinkWithoutTokenRestarts ==
    [][ /\ (FetchStep /\ LinkWithoutToken(dom')) =>
               /\ after_token' = None
               /\ page_number' = page_number + 1
               /\ pc' = "walk"
               /\ widx' = widx
               /\ win_log'[widx].state = "walking"
        /\ (FetchStep /\ LinkWithoutToken(dom)) =>
               dom'.url = BaseUrl(Window[1], Window[2])
      ]_vars

C22_Witness ==
    /\ pc = "walk"
    /\ LinkWithoutToken(dom)
    /\ dom.url = BaseUrl(Window[1], Window[2]) \o "?after=" \o "a"
    /\ after_token = None
    /\ page_number = 3
    /\ win_log[widx].state = "walking"

\* C23: a page without rows, at whatever page number, ends the walk of its
\* window without error: the records gathered from the window's earlier pages
\* are returned to main and the next window is walked
C23_EmptyPageReturnsGathered ==
    [][ EmptyPageStep =>
            /\ all_transactions' = all_transactions \o transactions
            /\ win_log'[widx].state = "exhausted_empty"
            /\ win_log'[widx].returned = Len(transactions)
            /\ win_log'[widx].fetches = page_number
            /\ outcome' = "running"
            /\ exit_status' = None
            /\ NextWindowFollows
      ]_vars

C23_Witness ==
    /\ pc = "done"
    /\ outcome = "saved"
    /\ Len(win_log) = 1
    /\ win_log[1].state = "exhausted_empty"
    /\ win_log[1].fetches = 3
    /\ win_log[1].returned = 2
    /\ Len(excel[1]) = 2

\* the number of rows on the pages logged that, read as a date of this year,
\* give the date text `date`, in range
ServedOn(pages, year, date) ==
    LET hits(p) ==
            Cardinality({i \in 1 .. Len(pages[p].texts) :
                            /\ Accepted(pages[p].texts[i], year,
                                        start_date, end_date)
                            /\ StrfTime(ResolvedDate(pages[p].texts[i],
                                                     year)[1]) = date})
        sum[p \in 0 .. Len(pages)] ==
            IF p = 0 THEN 0 ELSE hits(p) + sum[p - 1]
    IN  sum[Len(pages)]

\* the same over every window of the log
ServedInRun(date) ==
    LET sum[k \in 0 .. Len(win_log)] ==
            IF k = 0 THEN 0
            ELSE ServedOn(win_log[k].pages, win_log[k].year, date) + sum[k - 1]
    IN  sum[Len(win_log)]

\* C24: whether a row gives a record does not depend on the month of the
\* window it is served under, and nothing removes duplicates: for every date,
\* the result holds as many records of that date as rows were served, under
\* whatever window, whose month/day read under the window's year is that date
\* and lies in the range
C24_NoMonthTestNoDedup ==
    \A date \in {Held[i].date : i \in 1 .. Len(Held)}
                \cup {StrfTime(Date(y, 1, 3)) : y \in {2023, 2024}}
                \cup {StrfTime(Date(y, 12, 20)) : y \in {2023, 2024}} :
        Cardinality({i \in 1 .. Len(Held) : Held[i].date = date})
            = ServedInRun(date)

C24_Witness ==
    /\ pc = "done"
    /\ Len(win_log) = 2
    /\ <<win_log[1].year, win_log[1].month>> = <<2024, 1>>
    /\ <<win_log[2].year, win_log[2].month>> = <<2024, 2>>
    /\ Len(win_log[1].pages) = 1
    /\ Len(win_log[2].pages) = 1
    /\ win_log[1].pages[1].texts = <<<<"1", "/", "3">>>>
    /\ win_log[2].pages[1].texts = <<<<"1", "/", "3">>>>
    /\ DatesOf(excel[1]) = <<"2024-01-03", "2024-01-03">>

\* the run has ended or not begun, and nothing was launched, fetched or saved
NothingLaunched ==
    /\ pc \in {"start", "done"}
    /\ browser = "none"
    /\ dom = BlankPage
    /\ date_ranges = <<>>
    /\ win_log = <<>>
    /\ enrich_log = <<>>
    /\ excel = None

-----------------------------------------------------------------------------
(* Properties of get_player_position (SpecPosition) *)

\* C26: get_player_position returns, never raises; every page it opened is
\* closed when it returns, on success, on a timeout and on any other error
\* of the navigation or the extraction; and with the browser handle not set
\* it returns the empty string without opening a page
C26_OpenedPagesAreClosed ==
    Returned =>
        /\ ret[1].ok
        /\ ret[1].closed = ret[1].opened
        /\ ~call.browser_open =>
               (ret[1].position = <<>> /\ ret[1].opened = 0)
        /\ (call.browser_open
            /\ call.out.kind \in {"timeout", "error", "loaded"}) =>
               ret[1].opened = 1
        /\ (call.browser_open /\ call.out.kind = "loaded") =>
               ret[1].position = CellText(call.out.element)
        /\ call.out.kind # "loaded" => ret[1].position = <<>>

C26_Witness ==
    /\ Returned
    /\ call.browser_open
    /\ call.out.kind = "timeout"
    /\ ret[1].opened = 1
    /\ ret[1].closed = 1
    /\ ret[1].position = <<>>

-----------------------------------------------------------------------------
(* C27: the per-team scraper of main.py *)

\* the events of team t, in order
TeamEvents(t) == SelectSeq(events, LAMBDA e : e.team = t)

\* the events of a team all of whose steps succeed
FullRun(t) ==
    <<Event(t, "depth_chart", "start"), Event(t, "depth_chart", "json"),
      Event(t, "depth_chart", "xlsx"),
      Event(t, "roster", "start"), Event(t, "roster", "json"),
      Event(t, "roster", "xlsx"),
      Event(t, "injuries", "start"), Event(t, "injuries", "json"),
      Event(t, "injuries", "xlsx"),
      Event(t, "transactions", "start"), Event(t, "transactions", "json"),
      Event(t, "transactions", "xlsx")>>

IsPrefix(s, f) == Len(s) <= Len(f) /\ s = SubSeq(f, 1, Len(s))

\* team t went through its steps in order, each saved before the next
\* started, and nothing of it ran after a failure
TeamInOrder(t) ==
    LET ev == TeamEvents(t)
        n == Len(ev)
    IN  \/ IsPrefix(ev, FullRun(t))
        \/ /\ n >= 2
           /\ ev[n].what = "failed"
           /\ ev[n - 1].what \in {"start", "json"}
           /\ ev[n - 1].type = ev[n].type
           /\ IsPrefix(SubSeq(ev, 1, n - 1), FullRun(t))

\* the events of the teams 1 .. n, one team after the other
RECURSIVE EventsUpTo(_)
EventsUpTo(n) == IF n = 0 THEN <<>> ELSE EventsUpTo(n - 1) \o TeamEvents(n)

\* the files the events say were written
WrittenFiles ==
    {<<teams[events[i].team], events[i].type, events[i].what>> :
        i \in {j \in 1 .. Len(events) : events[j].what \in {"json", "xlsx"}}}

\* C27: in main.py's main the four steps of a team run in the order depth
\* chart, roster, injuries, transactions, each saved before the next starts;
\* a failure in a step skips the remaining steps of that team only, what was
\* saved stays saved, every later team is still processed, and the browser
\* is closed exactly once on every exit path after the launch
C27_TeamsIsolatedBrowserClosedOnce ==
    /\ \A t \in 1 .. Len(teams) : TeamInOrder(t)
    /\ events = EventsUpTo(Len(teams))
    /\ saved_files = WrittenFiles
    /\ (run_pc \in {"close", "done"} /\ ~fatal) =>
           \A t \in 1 .. Len(teams) :
               /\ TeamEvents(t) # <<>>
               /\ TeamEvents(t)[1] = Event(t, "depth_chart", "start")
    /\ run_pc \in {"scrape", "save"} =>
           \A t \in 1 .. (team_no - 1) : TeamEvents(t) # <<>>
    /\ browser_closes = IF run_pc = "done" /\ espn_browser # "none" THEN 1
                        ELSE 0
    /\ run_pc = "done" => espn_browser \in {"none", "closed"}
    /\ run_pc \in {"scrape_teams", "scrape", "save", "close"} =>
           espn_browser = "open"

\* the first team failed in its roster step after its depth chart was saved,
\* the second team went through all four steps, and the browser was closed
C27_Witness ==
    /\ run_pc = "done"
    /\ Len(teams) = 2
    /\ TeamEvents(1) = <<Event(1, "depth_chart", "start"),
                         Event(1, "depth_chart", "json"),
                         Event(1, "depth_chart", "xlsx"),
                         Event(1, "roster", "start"),
                         Event(1, "roster", "failed")>>
    /\ TeamEvents(2) = FullRun(2)
    /\ <<"Bills", "depth_chart", "json">> \in saved_files
    /\ browser_closes = 1

-----------------------------------------------------------------------------
(* C28: the depth chart scraper and the injury scraper on errors *)

\* an error stops get_team_depth after its page was opened
DepthError(out) ==
    \/ out.kind = "load_error"
    \/ /\ out.kind = "loaded"
       /\ \E i \in 1 .. Len(out.tables) :
              \/ out.tables[i].kind = "error"
              \/ /\ out.tables[i].kind = "rows"
                 /\ \E j \in 1 .. Len(out.tables[i].cells) :
                        out.tables[i].cells[j] = "error"

\* the places of the player cells that hold a named player
DepthPlayers(tables) ==
    UNION {{<<i, j>> : j \in {k \in 1 .. Len(tables[i].cells) :
                                 tables[i].cells[k] = "player"}} :
              i \in {t \in 1 .. Len(tables) : tables[t].kind = "rows"}}

\* an error reaches the try of scrape_injury_reports itself
InjuryOuterError(out) ==
    \/ out.kind = "load_error"
    \/ /\ out.kind = "loaded"
       /\ \E i \in 1 .. Len(out.elements) : out.elements[i].kind = "error"

\* the units that follow a date header
DatedUnits(elements) ==
    {i \in 1 .. Len(elements) :
        /\ elements[i].kind = "unit"
        /\ \E h \in 1 .. (i - 1) : elements[h].kind = "header"}

\* the last date header before element i
HeaderOf(elements, i) ==
    CHOOSE h \in 1 .. (i - 1) :
        /\ elements[h].kind = "header"
        /\ \A g \in (h + 1) .. (i - 1) : elements[g].kind # "header"

\* an error occurs inside process_injury_unit: an error row of a dated unit
\* that the loop reaches
InjuryUnitError(out) ==
    /\ out.kind = "loaded"
    /\ \E i \in DatedUnits(out.elements) :
           /\ \A g \in 1 .. (i - 1) : out.elements[g].kind # "error"
           /\ \E j \in 1 .. Len(out.elements[i].rows) :
                  out.elements[i].rows[j] = "error"

\* the places of the rows that give a record: full rows of dated units, up
\* to the unit's first row that raises
InjuryRows(elements) ==
    UNION {{<<i, j>> : j \in {k \in 1 .. Len(elements[i].rows) :
                                 /\ elements[i].rows[k] = "row"
                                 /\ \A e \in 1 .. (k - 1) :
                                        elements[i].rows[e] # "error"}} :
              i \in DatedUnits(elements)}

\* p comes before q, both places <<i, j>>
PlaceBefore(p, q) == p[1] < q[1] \/ (p[1] = q[1] /\ p[2] < q[2])

\* the sequence of places holds the places of S, each once, in order
ListsInOrder(places, S) ==
    /\ {places[a] : a \in 1 .. Len(places)} = S
    /\ \A a, b \in 1 .. Len(places) :
           a < b => PlaceBefore(places[a], places[b])

\* both scrapers close every page they opened, and raise only when the page
\* could not be opened
PageClosedOnEveryPath ==
    /\ ret[1].opened = ret[1].closed
    /\ ret[1].opened = (IF call.out.kind = "new_page_error" THEN 0 ELSE 1)
    /\ ret[1].raised <=> (call.out.kind = "new_page_error")

\* the claim as stated: whenever an error occurs after the page was opened,
\* inside a unit of the injury report included, the scraper returns the
\* empty list, and the page is closed on every path
C28_AnyErrorReturnsEmpty ==
    Returned =>
        /\ PageClosedOnEveryPath
        /\ (call.scraper = "depth_chart" /\ DepthError(call.out)) =>
               ret[1].value = <<>>
        /\ (call.scraper = "injuries"
            /\ (InjuryOuterError(call.out) \/ InjuryUnitError(call.out))) =>
               ret[1].value = <<>>

\* C28: get_team_depth and scrape_injury_reports return the empty list when
\* an error reaches their own try after the page was opened, whatever they
\* had gathered, and they close their page on every path; an error inside a
\* unit of the injury report is caught by process_injury_unit, which keeps
\* the unit's records gathered before it, and the scrape goes on; without
\* an error every player and every full row of a dated unit is returned
C28_OwnErrorsReturnEmpty ==
    Returned =>
        /\ PageClosedOnEveryPath
        /\ call.scraper = "depth_chart" =>
               /\ DepthError(call.out) => ret[1].value = <<>>
               /\ (call.out.kind = "loaded" /\ ~DepthError(call.out)) =>
                      ListsInOrder([a \in 1 .. Len(ret[1].value) |->
                                       <<ret[1].value[a].table,
                                         ret[1].value[a].cell>>],
                                   DepthPlayers(call.out.tables))
        /\ call.scraper = "injuries" =>
               /\ InjuryOuterError(call.out) => ret[1].value = <<>>
               /\ call.out.kind = "no_wrap" => ret[1].value = <<>>
               /\ (call.out.kind = "loaded" /\ ~InjuryOuterError(call.out)) =>
                      /\ ListsInOrder([a \in 1 .. Len(ret[1].value) |->
                                          <<ret[1].value[a].unit,
                                            ret[1].value[a].row>>],
                                      InjuryRows(call.out.elements))
                      /\ \A a \in 1 .. Len(ret[1].value) :
                             ret[1].value[a].date
                             = parse_game_date(
                                   call.out.elements[
                                       HeaderOf(call.out.elements,
                                                ret[1].value[a].unit)])

\* a dated unit gave a record before one of its rows raised, a later element
\* could not be read, and the injury scraper returned the empty list with
\* its page closed
C28_Witness ==
    /\ Returned
    /\ call.scraper = "injuries"
    /\ call.out.kind = "loaded"
    /\ call.out.elements = <<[kind |-> "header", date |-> Some("2023-09-07")],
                             [kind |-> "unit", rows |-> <<"row", "error">>],
                             [kind |-> "error"]>>
    /\ ret[1].value = <<>>
    /\ ret[1].closed = 1

====
